---------------------------- MODULE Spec2Model ----------------------------
(***************************************************************************)
(* Verification model of the clickhouse-operator slice:                    *)
(*   - the Service reconcile worker (pkg/controller/chi/worker-service.go) *)
(*   - the remote-servers generator options (type_cluster.go)              *)
(*   - the object creator (pkg/model/creator.go)                           *)
(*   - the kube managers for StatefulSets and PodDisruptionBudgets         *)
(*   - the keeper cluster traversals and lookups (type_cluster.go)         *)
(*   - the SQL connection (pkg/model/clickhouse/connection.go)             *)
(* Each part has its own specification over its own group of variables;    *)
(* the variables of the other parts stay at their idle value.              *)
(***************************************************************************)
EXTENDS Integers, Sequences, FiniteSets, TLC

(***************************************************************************)
(* Bounds of the model                                                     *)
(***************************************************************************)
\* number of reconcileService calls made in succession
MaxRuns == 2

\* a nil pointer to a string
Nil == "nil"

\* a nil *core.Service / no object under that name on the platform
NoService == [Absent |-> TRUE]

\* no reconcileService call has returned yet
NoRun == [Absent |-> TRUE]

(***************************************************************************)
(* Generic helpers                                                         *)
(***************************************************************************)
Range(s) == {s[i] : i \in 1..Len(s)}

EmptyMap == [k \in {} |-> ""]

\* util.MergeStringMapsPreserve(dst, src): keys of src absent from dst are
\* added, keys already in dst keep dst's value
MergeStringMapsPreserve(dst, src) ==
    [k \in (DOMAIN dst) \cup (DOMAIN src) |-> IF k \in DOMAIN dst THEN dst[k] ELSE src[k]]

RECURSIVE AppendMissing(_, _)
AppendMissing(dst, src) ==
    IF src = <<>> THEN dst
    ELSE AppendMissing(IF Head(src) \in Range(dst) THEN dst ELSE Append(dst, Head(src)),
                       Tail(src))

\* util.MergeStringArrays(dst, src): dst followed by the items of src it lacks
MergeStringArrays(dst, src) == AppendMissing(dst, src)

(***************************************************************************)
(* core.Service values                                                     *)
(***************************************************************************)
ServicePort(name, port, nodePort) == [Name |-> name, Port |-> port, NodePort |-> nodePort]

Service(type, ip, rv, ports, etp, hc, lbc, labels, annotations, finalizers) ==
    [Type |-> type, ClusterIP |-> ip, ResourceVersion |-> rv, Ports |-> ports,
     ExternalTrafficPolicy |-> etp, HealthCheckNodePort |-> hc,
     LoadBalancerClass |-> lbc,
     Labels |-> labels, Annotations |-> annotations, Finalizers |-> finalizers]

\* desired Service objects handed to reconcileService (built by the creator:
\* resourceVersion empty, nothing platform-assigned)
DesiredServices ==
    { Service("ClusterIP", "", 0,
              <<ServicePort("http", 8123, 0), ServicePort("tcp", 9000, 0)>>,
              "", 0, Nil, ("app" :> "chi"), EmptyMap, <<>>),
      Service("ClusterIP", "None", 0,
              <<ServicePort("http", 8123, 0)>>,
              "", 0, Nil, ("app" :> "chi2"), EmptyMap, <<>>),
      Service("NodePort", "", 0,
              <<ServicePort("http", 8123, 0), ServicePort("tcp", 9001, 0)>>,
              "Local", 0, Nil, ("app" :> "chi"), ("note" :> "new"), <<"f-new">>),
      Service("LoadBalancer", "", 0,
              <<ServicePort("http", 8123, 0), ServicePort("tcp", 9000, 0)>>,
              "Local", 0, Nil, ("app" :> "chi"), EmptyMap, <<>>) }

\* Service objects the platform may hold before the first call
PlatformServices ==
    { Service("ClusterIP", "10.0.0.5", 1,
              <<ServicePort("web", 8123, 0), ServicePort("tcp", 9000, 0)>>,
              "", 0, Nil, ("app" :> "old") @@ ("owner" :> "me"), EmptyMap, <<"f-old">>),
      Service("NodePort", "10.0.0.9", 1,
              <<ServicePort("http", 8123, 30001), ServicePort("tcp", 9000, 30002)>>,
              "Local", 31000, Nil, ("app" :> "chi"), ("note" :> "old"), <<>>),
      Service("LoadBalancer", "10.0.0.5", 1,
              <<ServicePort("http", 8123, 30001)>>,
              "Cluster", 0, "lb-class", ("app" :> "chi"), EmptyMap, <<>>) }

(***************************************************************************)
(* State                                                                   *)
(***************************************************************************)
VARIABLES
    \* ---- Service reconcile worker ----
    svc,        \* the Service the platform holds under namespace/name, or NoService
    pc,         \* position of the reconcileService call
    run,        \* number of reconcileService calls started so far
    target,     \* reconcileService's `service` argument (desired object)
    ctxDone,    \* util.IsContextDone(ctx) of the call's context
    curService, \* reconcileService's curService
    err,        \* reconcileService's err
    calls,      \* platform calls issued by the current call, in order
    submitted,  \* object passed to the platform Update by updateService, or NoService
    created,    \* object passed to the platform Create by createService, or NoService
    updRet,     \* what updateService returned ("none": it was not called)
    delRet,     \* what deleteServiceIfExists returned ("none": not called)
    skipped,    \* the step that found the context done ("none" if no step did)
    failed,     \* a platform call of the current call failed
    result,     \* what reconcileService returned
    events,     \* reasons of the events the current call emitted, in order
    statusError, \* the current call marked the status as errored (WithStatusError)
    prevRun,    \* summary of the previous reconcileService call, or NoRun
    desired,    \* the Service the caller generated and passed to the current call
    current,    \* the Service the lookup of the current call returned, or NoService
    \* ---- RemoteServersGeneratorOptions ----
    opts,       \* the *RemoteServersGeneratorOptions value o (NilOptions: nil)
    hostAttrs,  \* host -> its reconcile attributes (host.GetReconcileAttributes())
    qHost,      \* the host last asked about, or NoHost
    qExclude,   \* what o.Exclude(qHost) returned
    qInclude,   \* what o.Include(qHost) returned
    \* ---- Creator: Service generation ----
    genScope,     \* the Create* method last called ("none": none yet)
    genTemplate,  \* the service template it found, or NoTemplate
    genTemplateAfter, \* that template as the call left it
    genHost,      \* its host argument (CreateServiceHost), or NoHost
    genVerifyErr, \* what verifyServiceTemplatePorts returned ("none": not called)
    genService,   \* the *corev1.Service it returned, or NoService
    genErr,       \* the error it returned to its caller
    \* ---- Creator: StatefulSet assembly ----
    sts,        \* the *apps.StatefulSet being assembled, or NoStatefulSet
    stsHost,    \* the host it is assembled for, or NoStsHost
    stsHist,    \* sts as it was before each of these operations, oldest first
    stsOps,     \* the operations applied to sts so far, oldest first
    \* ---- kube managers: STS and PDB ----
    kubeCall,       \* the client call in flight with the context it is bound to, or NoCall
    kubeCallerDone, \* the context the caller passed to the manager is done
    kubeLog,        \* the manager calls that have returned, oldest first
    \* ---- ChkCluster ----
    layout,      \* cluster.Layout: Shards, Replicas, ShardsSpecified, ReplicasSpecified
    filled,      \* FillShardReplicaSpecified has run on the cluster
    clusterCall, \* the last Walk*/Find*/FirstHost call with what it did, or NoClusterCall
    \* ---- clickhouse.Connection ----
    conn,        \* c.conn: the *sql.DB held by the Connection, or Nil
    connLog,     \* the QueryContext/Exec calls that have returned, oldest first
    \* ---- Creator: pod templates shared between hosts ----
    podTemplates, \* the named pod templates of the installation, as they are now
    workloads     \* the StatefulSets CreateStatefulSet returned, with their hosts

workerVars == <<svc, pc, run, target, ctxDone, curService, err, calls, submitted,
                created, updRet, delRet, skipped, failed, result, events, statusError,
                prevRun, desired, current>>

optionsVars == <<opts, hostAttrs, qHost, qExclude, qInclude>>

serviceVars == <<genScope, genTemplate, genTemplateAfter, genHost, genVerifyErr,
                 genService, genErr>>

stsVars == <<sts, stsHost, stsHist, stsOps>>

kubeVars == <<kubeCall, kubeCallerDone, kubeLog>>

clusterVars == <<layout, filled, clusterCall>>

connVars == <<conn, connLog>>

templateVars == <<podTemplates, workloads>>

vars == <<workerVars, optionsVars, serviceVars, stsVars, kubeVars, clusterVars,
           connVars, templateVars>>

\* the variables the reconcile worker leaves alone
notWorker == <<optionsVars, serviceVars, stsVars, kubeVars, clusterVars, connVars,
                templateVars>>

\* the variables the generator options leave alone
notOptions == <<workerVars, serviceVars, stsVars, kubeVars, clusterVars, connVars,
                 templateVars>>

\* the variables the Service generation leaves alone
notService == <<workerVars, optionsVars, stsVars, kubeVars, clusterVars, connVars,
                 templateVars>>

\* the variables the StatefulSet assembly leaves alone
notStatefulSet == <<workerVars, optionsVars, serviceVars, kubeVars, clusterVars,
                     connVars, templateVars>>

\* the variables the kube managers leave alone
notKube == <<workerVars, optionsVars, serviceVars, stsVars, clusterVars, connVars,
              templateVars>>

\* the variables the cluster traversals and lookups leave alone
notCluster == <<workerVars, optionsVars, serviceVars, stsVars, kubeVars, connVars,
                 templateVars>>

\* the variables the SQL connection leaves alone
notConn == <<workerVars, optionsVars, serviceVars, stsVars, kubeVars, clusterVars,
              templateVars>>

\* the variables the creation of StatefulSets from shared templates leaves alone
notTemplates == <<workerVars, optionsVars, serviceVars, stsVars, kubeVars,
                   clusterVars, connVars>>

(***************************************************************************)
(* worker.updateService: the object it submits                             *)
(***************************************************************************)
\* worker-service.go:127-143, ports of the new service
MigratePort(newPort, curPorts) ==
    LET matches == {j \in 1..Len(curPorts) : curPorts[j].Port = newPort.Port}
    IN  IF matches = {} THEN newPort
        ELSE curPorts[CHOOSE j \in matches : \A k \in matches : j <= k]

\* updateService that submits the desired ports whatever the types
NoPortMigration(cur, new) == new.Ports

MigratePorts(cur, new) ==
    LET serviceTypeIsNodePort == cur.Type = "NodePort" /\ new.Type = "NodePort"
        serviceTypeIsLoadBalancer == cur.Type = "LoadBalancer" /\ new.Type = "LoadBalancer"
    IN  IF serviceTypeIsNodePort \/ serviceTypeIsLoadBalancer
        THEN [i \in 1..Len(new.Ports) |-> MigratePort(new.Ports[i], cur.Ports)]
        ELSE new.Ports

\* worker-service.go:112
NoClusterIPMigration(cur, new) == new.ClusterIP
MigrateClusterIP(cur, new) == cur.ClusterIP

\* updateService that submits the desired labels only
DesiredLabelsOnly(cur, tgt) == tgt.Labels

\* worker-service.go:169-171
MigrateLabels(cur, tgt) == MergeStringMapsPreserve(tgt.Labels, cur.Labels)

MigrateAnnotations(cur, tgt) == MergeStringMapsPreserve(tgt.Annotations, cur.Annotations)

MigrateFinalizers(cur, tgt) == MergeStringArrays(tgt.Finalizers, cur.Finalizers)

\* worker-service.go:99-171: newService as handed to w.c.updateService
NewService(cur, tgt) ==
    [ Type |-> tgt.Type,
      ResourceVersion |-> cur.ResourceVersion,
      ClusterIP |-> MigrateClusterIP(cur, tgt),
      Ports |-> MigratePorts(cur, tgt),
      ExternalTrafficPolicy |-> tgt.ExternalTrafficPolicy,
      HealthCheckNodePort |->
          IF cur.ExternalTrafficPolicy = "Local" /\ tgt.ExternalTrafficPolicy = "Local"
          THEN cur.HealthCheckNodePort ELSE tgt.HealthCheckNodePort,
      LoadBalancerClass |->
          IF cur.LoadBalancerClass # Nil THEN cur.LoadBalancerClass ELSE tgt.LoadBalancerClass,
      Labels |-> MigrateLabels(cur, tgt),
      Annotations |-> MigrateAnnotations(cur, tgt),
      Finalizers |-> MigrateFinalizers(cur, tgt) ]

\* updateService that writes the migrated fields to the desired object itself
TargetWrittenInPlace(cur, tgt) == NewService(cur, tgt)

\* worker-service.go:99: newService is a DeepCopy of targetService and every
\* write of lines 102-171 goes to newService, so the object targetService
\* points to is, after the call, what it was
targetAfterUpdate(cur, tgt) == tgt

\* worker-service.go:102-171 only read curService
curServiceAfterUpdate(cur, tgt) == cur

\* worker-service.go:91
TypeCheckDisabled(cur, tgt) == FALSE
ServiceTypeChanged(cur, tgt) == cur.Type # tgt.Type

(***************************************************************************)
(* The platform (Service API)                                              *)
(***************************************************************************)
\* what the platform stores on a successful Create: it assigns the cluster IP,
\* the node ports and a resource version
AssignPort(p, type) ==
    IF type \in {"NodePort", "LoadBalancer"} /\ p.NodePort = 0
    THEN [p EXCEPT !.NodePort = 30000 + (p.Port % 1000)] ELSE p

Stored(obj) ==
    [obj EXCEPT !.ClusterIP = IF obj.ClusterIP = "" THEN "10.0.0.7" ELSE obj.ClusterIP,
                !.ResourceVersion = 1,
                !.Ports = [i \in 1..Len(obj.Ports) |-> AssignPort(obj.Ports[i], obj.Type)]]

\* what the platform stores on a successful Update
Updated(obj) == [obj EXCEPT !.ResourceVersion = obj.ResourceVersion + 1]

(***************************************************************************)
(* worker.reconcileService, one platform call per step                     *)
(***************************************************************************)
\* worker-service.go:49-64: where the call goes once updateService returned e
SkipDeleteAfterUpdate(e) == IF e = "nil" THEN "return" ELSE "create"
RecreateAfterUpdate(e) == "delete"
RetryUpdate(e) == IF e = "nil" THEN "return" ELSE "update"
AfterUpdate(e) == IF e = "nil" THEN "return" ELSE "delete"

\* worker-service.go:49-60: the event emitted when err is not nil after the
\* lookup and updateService, and whether the status is marked as errored
RecreateEvents(e) == IF e = "notfound" THEN <<>> ELSE << "UpdateFailed" >>
RecreateStatusError(e) == e # "notfound"

\* worker-service.go:177-186: the event updateService emits for the result of
\* the platform Update
UpdateEvents(e) == IF e = "nil" THEN << "UpdateCompleted" >> ELSE <<>>

\* worker-service.go:198-211 and 66-74: the events createService and then
\* reconcileService emit for the result of the platform Create
NoCreateEvents(e) == <<>>
CreateEvents(e) ==
    IF e = "nil" THEN << "CreateCompleted" >> ELSE << "CreateFailed", "ReconcileFailed" >>
CreateStatusError(e) == e # "nil"

RunSummary ==
    [target |-> target, calls |-> calls, failed |-> failed, ctxDone |-> ctxDone,
     result |-> result]

WorkerIdle ==
    /\ svc = NoService
    /\ pc = "idle"
    /\ run = 0
    /\ target = NoService
    /\ ctxDone = FALSE
    /\ curService = NoService
    /\ err = "nil"
    /\ calls = <<>>
    /\ submitted = NoService
    /\ created = NoService
    /\ updRet = "none"
    /\ delRet = "none"
    /\ skipped = "none"
    /\ failed = FALSE
    /\ result = "none"
    /\ events = <<>>
    /\ statusError = FALSE
    /\ prevRun = NoRun
    /\ desired = NoService
    /\ current = NoService

WorkerInit ==
    /\ svc \in PlatformServices \cup {NoService}
    /\ pc = "idle"
    /\ run = 0
    /\ target = NoService
    /\ ctxDone = FALSE
    /\ curService = NoService
    /\ err = "nil"
    /\ calls = <<>>
    /\ submitted = NoService
    /\ created = NoService
    /\ updRet = "none"
    /\ delRet = "none"
    /\ skipped = "none"
    /\ failed = FALSE
    /\ result = "none"
    /\ events = <<>>
    /\ statusError = FALSE
    /\ prevRun = NoRun
    /\ desired = NoService
    /\ current = NoService

\* worker-service.go:32, 86, 193: if util.IsContextDone(ctx) { return nil }
ContextNeverDone(done) == FALSE
IsContextDone(done) == done

\* the caller enters reconcileService(ctx, cr, service); lines 31-35
Enter(service, done) ==
    /\ pc \in {"idle", "return"}
    /\ run < MaxRuns
    /\ run' = run + 1
    /\ prevRun' = IF pc = "return" THEN RunSummary ELSE prevRun
    /\ target' = service
    /\ desired' = service
    /\ current' = NoService
    /\ ctxDone' = done
    /\ curService' = NoService
    /\ err' = "nil"
    /\ calls' = <<>>
    /\ submitted' = NoService
    /\ created' = NoService
    /\ updRet' = "none"
    /\ delRet' = "none"
    /\ failed' = FALSE
    /\ events' = <<>>
    /\ statusError' = FALSE
    /\ IF IsContextDone(done)
       THEN pc' = "return" /\ result' = "nil" /\ skipped' = "reconcile"
       ELSE pc' = "get" /\ result' = "none" /\ skipped' = "none"
    /\ UNCHANGED svc
    /\ UNCHANGED notWorker

\* the context of the running call is cancelled or expires
Cancel ==
    /\ pc \in {"get", "update", "delete", "create"}
    /\ ~ctxDone
    /\ ctxDone' = TRUE
    /\ UNCHANGED <<svc, pc, run, target, curService, err, calls, submitted, created,
                   updRet, delRet, skipped, failed, result, events, statusError,
                   prevRun, desired, current>>
    /\ UNCHANGED notWorker

\* line 41: curService, err := w.c.getService(ctx, service)
GetService(outcome) ==
    /\ pc = "get"
    /\ outcome \in {"found", "notfound", "other"}
    /\ outcome = "found" => svc # NoService
    /\ outcome = "notfound" => svc = NoService
    /\ calls' = Append(calls, "Get")
    /\ curService' = IF outcome = "found" THEN svc ELSE NoService
    /\ current' = IF outcome = "found" THEN svc ELSE NoService
    /\ err' = IF outcome = "found" THEN "nil" ELSE outcome
    /\ failed' = (failed \/ outcome = "other")
    /\ pc' = IF outcome = "found" THEN "update" ELSE "delete"
    /\ events' = IF outcome = "found" THEN events ELSE events \o RecreateEvents(outcome)
    /\ statusError' = IF outcome = "found" THEN statusError
                      ELSE (statusError \/ RecreateStatusError(outcome))
    /\ UNCHANGED <<svc, run, target, ctxDone, submitted, created, updRet, delRet,
                   skipped, result, prevRun, desired>>
    /\ UNCHANGED notWorker

\* lines 43-47 with updateService (80-189), found the context done: returns nil
UpdateServiceDone ==
    /\ pc = "update"
    /\ IsContextDone(ctxDone)
    /\ updRet' = "nil"
    /\ err' = "nil"
    /\ skipped' = "update"
    /\ pc' = AfterUpdate("nil")
    /\ result' = "nil"
    /\ UNCHANGED <<svc, run, target, ctxDone, curService, calls, submitted, created,
                   delRet, failed, events, statusError, prevRun, desired, current>>
    /\ UNCHANGED notWorker

\* lines 43-47 with updateService (91-95): the type differs, nothing is submitted
UpdateServiceTypeChange ==
    /\ pc = "update"
    /\ ~IsContextDone(ctxDone)
    /\ ServiceTypeChanged(curService, target)
    /\ updRet' = "typechange"
    /\ err' = "typechange"
    /\ pc' = AfterUpdate("typechange")
    /\ events' = events \o RecreateEvents("typechange")
    /\ statusError' = (statusError \/ RecreateStatusError("typechange"))
    /\ UNCHANGED <<svc, run, target, ctxDone, curService, calls, submitted, created,
                   delRet, skipped, failed, result, prevRun, desired, current>>
    /\ UNCHANGED notWorker

\* lines 43-47 with updateService (99-188): newService is submitted
UpdateServiceSubmit(outcome) ==
    /\ pc = "update"
    /\ ~IsContextDone(ctxDone)
    /\ ~ServiceTypeChanged(curService, target)
    /\ outcome \in {"nil", "notfound", "other"}
    /\ outcome = "nil" => svc # NoService
    /\ submitted' = NewService(curService, target)
    /\ calls' = Append(calls, "Update")
    /\ svc' = IF outcome = "nil" THEN Updated(submitted') ELSE svc
    /\ updRet' = outcome
    /\ err' = outcome
    /\ failed' = (failed \/ outcome # "nil")
    /\ pc' = AfterUpdate(outcome)
    /\ result' = IF pc' = "return" THEN "nil" ELSE result
    /\ events' = IF outcome = "nil" THEN events \o UpdateEvents(outcome)
                 ELSE events \o UpdateEvents(outcome) \o RecreateEvents(outcome)
    /\ statusError' = IF outcome = "nil" THEN statusError
                      ELSE (statusError \/ RecreateStatusError(outcome))
    /\ target' = targetAfterUpdate(curService, target)
    /\ curService' = curServiceAfterUpdate(curService, target)
    /\ UNCHANGED <<run, ctxDone, created, delRet, skipped, prevRun, desired, current>>
    /\ UNCHANGED notWorker

\* line 62: _ = w.c.deleteServiceIfExists(ctx, service.Namespace, service.Name)
DeleteServiceIfExists(outcome) ==
    /\ pc = "delete"
    /\ outcome \in {"nil", "other"}
    /\ calls' = Append(calls, "Delete")
    /\ svc' = IF outcome = "nil" THEN NoService ELSE svc
    /\ delRet' = outcome
    /\ failed' = (failed \/ outcome # "nil")
    /\ pc' = "create"
    /\ UNCHANGED <<run, target, ctxDone, curService, err, submitted, created, updRet,
                   skipped, result, events, statusError, prevRun, desired, current>>
    /\ UNCHANGED notWorker

\* line 63 with createService (192-196), found the context done: returns nil
CreateServiceDone ==
    /\ pc = "create"
    /\ IsContextDone(ctxDone)
    /\ err' = "nil"
    /\ skipped' = "create"
    /\ result' = "nil"
    /\ pc' = "return"
    /\ UNCHANGED <<svc, run, target, ctxDone, curService, calls, submitted, created,
                   updRet, delRet, failed, events, statusError, prevRun, desired, current>>
    /\ UNCHANGED notWorker

\* line 63 with createService (198-213), then lines 66-76
CreateService(outcome) ==
    /\ pc = "create"
    /\ ~IsContextDone(ctxDone)
    /\ outcome \in {"nil", "exists", "other"}
    /\ outcome = "nil" => svc = NoService
    /\ outcome = "exists" => svc # NoService
    /\ calls' = Append(calls, "Create")
    /\ created' = target
    /\ svc' = IF outcome = "nil" THEN Stored(target) ELSE svc
    /\ err' = outcome
    /\ failed' = (failed \/ outcome # "nil")
    /\ result' = outcome
    /\ pc' = "return"
    /\ events' = events \o CreateEvents(outcome)
    /\ statusError' = (statusError \/ CreateStatusError(outcome))
    /\ UNCHANGED <<run, target, ctxDone, curService, submitted, updRet, delRet,
                   skipped, prevRun, desired, current>>
    /\ UNCHANGED notWorker

(***************************************************************************)
(* RemoteServersGeneratorOptions (type_cluster.go:389-472)                 *)
(***************************************************************************)
\* longest exclude.hosts list built
MaxExcluded == 2

Hosts == {"h1", "h2"}
NoHost == "none"

\* a nil *RemoteServersGeneratorOptions
NilOptions == [Absent |-> TRUE]

\* a nil *api.HostReconcileAttributes
NilAttributes == [Absent |-> TRUE]
Attributes(flags) == [flags |-> flags]

AttributeValues ==
    {Attributes({}), Attributes({"add"}), Attributes({"remove"}),
     Attributes({"add", "modify"})}

\* HostReconcileAttributes.Any: some attribute is set in both; false on nil
AttributesAny(s, of) ==
    IF s = NilAttributes \/ of = NilAttributes THEN FALSE
    ELSE s.flags \cap of.flags # {}

\* NewRemoteServersGeneratorOptions, type_cluster.go:398-400
NewRemoteServersGeneratorOptions == [attributes |-> NilAttributes, hosts |-> <<>>]

\* type_cluster.go:433-451
Exclude(o, host) ==
    IF o = NilOptions THEN FALSE
    ELSE IF AttributesAny(o.attributes, hostAttrs[host]) THEN TRUE
    ELSE IF \E i \in 1..Len(o.hosts) : o.hosts[i] = host THEN TRUE
    ELSE FALSE

\* type_cluster.go:454-472
Include(o, host) ==
    IF o = NilOptions THEN FALSE
    ELSE IF AttributesAny(o.attributes, hostAttrs[host]) THEN FALSE
    ELSE IF \E i \in 1..Len(o.hosts) : o.hosts[i] = host THEN FALSE
    ELSE TRUE

OptionsIdle ==
    /\ opts = NilOptions
    /\ hostAttrs = [h \in Hosts |-> NilAttributes]
    /\ qHost = NoHost
    /\ qExclude = FALSE
    /\ qInclude = FALSE

OptionsInit ==
    /\ opts \in {NilOptions, NewRemoteServersGeneratorOptions}
    /\ hostAttrs \in [Hosts -> AttributeValues \cup {NilAttributes}]
    /\ qHost = NoHost
    /\ qExclude = FALSE
    /\ qInclude = FALSE

\* type_cluster.go:403-410; host = NoHost is the nil host
ExcludeHost(host) ==
    /\ host \in Hosts \cup {NoHost}
    /\ opts # NilOptions => Len(opts.hosts) < MaxExcluded
    /\ opts' = IF opts = NilOptions \/ host = NoHost THEN opts
               ELSE [opts EXCEPT !.hosts = Append(@, host)]
    /\ UNCHANGED <<hostAttrs, qHost, qExclude, qInclude>>
    /\ UNCHANGED notOptions

\* type_cluster.go:413-420
ExcludeHosts(hosts) ==
    /\ opts # NilOptions => Len(opts.hosts) + Len(hosts) <= MaxExcluded
    /\ opts' = IF opts = NilOptions \/ Len(hosts) = 0 THEN opts
               ELSE [opts EXCEPT !.hosts = @ \o hosts]
    /\ UNCHANGED <<hostAttrs, qHost, qExclude, qInclude>>
    /\ UNCHANGED notOptions

\* type_cluster.go:423-430
ExcludeReconcileAttributes(attrs) ==
    /\ opts' = IF opts = NilOptions \/ attrs = NilAttributes THEN opts
               ELSE [opts EXCEPT !.attributes = attrs]
    /\ UNCHANGED <<hostAttrs, qHost, qExclude, qInclude>>
    /\ UNCHANGED notOptions

\* a caller asks o.Exclude(host) and o.Include(host)
Ask(host) ==
    /\ qHost' = host
    /\ qExclude' = Exclude(opts, host)
    /\ qInclude' = Include(opts, host)
    /\ UNCHANGED <<opts, hostAttrs>>
    /\ UNCHANGED notOptions

(***************************************************************************)
(* Creator: Service generation (creator.go:53-236)                         *)
(***************************************************************************)
\* most ports declared by a service template
MaxTemplatePorts == 2

\* well-known port names and default numbers
chDefaultHttpPortName == "http"
chDefaultTcpPortName == "tcp"
chDefaultInterserverHttpPortName == "interserver-http"
chDefaultHttpPortNumber == 8123
chDefaultTcpPortNumber == 9000
chDefaultInterserverHttpPortNumber == 9009
templateDefaultsServiceClusterIP == "None"

\* no service template is specified at the scope
NoTemplate == [Absent |-> TRUE]

\* int32 port numbers a template may declare
TemplatePortNumbers == {-1, 0, 1, 9000, 65535, 65536}

TemplatePortLists ==
    UNION { [1..n -> TemplatePortNumbers] : n \in 0..MaxTemplatePorts }

TemplatePorts(numbers) ==
    [i \in 1..Len(numbers) |->
        [Name |-> IF i = 1 THEN "p1" ELSE "p2", Protocol |-> "TCP",
         Port |-> numbers[i], TargetPort |-> numbers[i]]]

\* chiv1.ChiServiceTemplate values
ServiceTemplates ==
    { [Name |-> "tpl",
       ObjectMeta |-> [Name |-> meta.Name, Namespace |-> meta.Namespace,
                       Labels |-> meta.Labels],
       Spec |-> [Ports |-> TemplatePorts(numbers), Selector |-> ("app" :> "tpl"),
                 Type |-> "LoadBalancer", ClusterIP |-> ""]] :
      numbers \in TemplatePortLists,
      meta \in { [Name |-> "", Namespace |-> "", Labels |-> EmptyMap],
                 [Name |-> "custom", Namespace |-> "other", Labels |-> ("scope" :> "tpl")] } }

\* hosts with their assigned ports
GenHosts ==
    { [Name |-> "0-0", TcpPort |-> 9000, HttpPort |-> 8123, InterserverHttpPort |-> 9009],
      [Name |-> "0-1", TcpPort |-> 9001, HttpPort |-> 8124, InterserverHttpPort |-> 9010] }

\* util.MergeStringMaps(dst, src): src is added to dst, dst's value is kept on
\* a key both have
MergeStringMaps(dst, src) ==
    [k \in (DOMAIN dst) \cup (DOMAIN src) |-> IF k \in DOMAIN dst THEN dst[k] ELSE src[k]]

\* names, labels and selectors the namer and the labeler derive for a scope
ServiceName(scope) == "service-" \o scope
ScopeNamespace == "ns"
ScopeLabels(scope) == ("scope" :> scope) @@ ("chi" :> "test")
ScopeSelector(scope) == ("app" :> scope)

\* creator.go:195
PortRangeOffByOne(port) == (port < 0) \/ (port > 65536)
PortOutOfRange(port) == (port < 1) \/ (port > 65535)

\* creator.go:192-203: verifyServiceTemplatePorts
verifyServiceTemplatePorts(template) ==
    IF \E i \in 1..Len(template.Spec.Ports) : PortOutOfRange(template.Spec.Ports[i].Port)
    THEN "incorrect port" ELSE "nil"

\* creator.go:206-236: createServiceFromTemplate; its only result is the
\* *corev1.Service, the error of the verification is not returned
TemplateLabelsOnly(template, namespace, name, labels, selector) ==
    IF verifyServiceTemplatePorts(template) # "nil"
    THEN NoService
    ELSE [Name |-> name,
          Namespace |-> namespace,
          Labels |-> template.ObjectMeta.Labels,
          Spec |-> [Ports |-> template.Spec.Ports,
                    Selector |-> template.Spec.Selector,
                    Type |-> template.Spec.Type,
                    ClusterIP |-> template.Spec.ClusterIP,
                    PublishNotReadyAddresses |-> FALSE]]
createServiceFromTemplate(template, namespace, name, labels, selector) ==
    IF verifyServiceTemplatePorts(template) # "nil"
    THEN NoService
    ELSE [Name |-> name,
          Namespace |-> namespace,
          Labels |-> MergeStringMaps(template.ObjectMeta.Labels, labels),
          Spec |-> [Ports |-> template.Spec.Ports,
                    Selector |-> MergeStringMaps(template.Spec.Selector, selector),
                    Type |-> template.Spec.Type,
                    ClusterIP |-> template.Spec.ClusterIP,
                    PublishNotReadyAddresses |-> FALSE]]

\* creator.go:219-233: the template as createServiceFromTemplate leaves it. The
\* Service holds deep copies of the template's ObjectMeta and Spec (219-222),
\* so the merges into service.Labels and service.Spec.Selector (230, 233) do
\* not write into the maps of the template
TemplateMapsShared(template, labels, selector) ==
    IF verifyServiceTemplatePorts(template) # "nil" THEN template
    ELSE [template EXCEPT !.ObjectMeta.Labels = MergeStringMaps(@, labels),
                          !.Spec.Selector = MergeStringMaps(@, selector)]
templateAfterCreate(template, labels, selector) == template

DefaultPort(name, port, targetPort) ==
    [Name |-> name, Protocol |-> "TCP", Port |-> port, TargetPort |-> targetPort]

\* creator.go:70-95: the default Service of the installation
DefaultServiceChi ==
    [Name |-> ServiceName("chi"),
     Namespace |-> ScopeNamespace,
     Labels |-> ScopeLabels("chi"),
     Spec |-> [Ports |-> << DefaultPort(chDefaultHttpPortName, chDefaultHttpPortNumber,
                                        chDefaultHttpPortName),
                            DefaultPort(chDefaultTcpPortName, chDefaultTcpPortNumber,
                                        chDefaultTcpPortName) >>,
               Selector |-> ScopeSelector("chi"),
               Type |-> "LoadBalancer",
               ClusterIP |-> "",
               PublishNotReadyAddresses |-> FALSE]]

\* creator.go:155-187: the default Service of a host
DefaultServiceHost(host) ==
    [Name |-> ServiceName("host"),
     Namespace |-> ScopeNamespace,
     Labels |-> ScopeLabels("host"),
     Spec |-> [Ports |-> << DefaultPort(chDefaultHttpPortName, host.HttpPort, host.HttpPort),
                            DefaultPort(chDefaultTcpPortName, host.TcpPort, host.TcpPort),
                            DefaultPort(chDefaultInterserverHttpPortName,
                                        host.InterserverHttpPort, host.InterserverHttpPort) >>,
               Selector |-> ScopeSelector("host"),
               ClusterIP |-> templateDefaultsServiceClusterIP,
               Type |-> "ClusterIP",
               PublishNotReadyAddresses |-> TRUE]]

FromTemplate(scope, template) ==
    createServiceFromTemplate(template, ScopeNamespace, ServiceName(scope),
                              ScopeLabels(scope), ScopeSelector(scope))

ServiceIdle ==
    /\ genScope = "none"
    /\ genTemplate = NoTemplate
    /\ genTemplateAfter = NoTemplate
    /\ genHost = NoHost
    /\ genVerifyErr = "none"
    /\ genService = NoService
    /\ genErr = "nil"

\* what a Create* method leaves behind: the Service is its only result, so the
\* error its caller receives is always nil
Generated(scope, template, host, service) ==
    << scope, template, host,
       IF template = NoTemplate THEN "none" ELSE verifyServiceTemplatePorts(template),
       service, "nil",
       IF template = NoTemplate THEN NoTemplate
       ELSE templateAfterCreate(template, ScopeLabels(scope), ScopeSelector(scope)) >>

Return(generated) ==
    /\ genScope' = generated[1]
    /\ genTemplate' = generated[2]
    /\ genHost' = generated[3]
    /\ genVerifyErr' = generated[4]
    /\ genService' = generated[5]
    /\ genErr' = generated[6]
    /\ genTemplateAfter' = generated[7]

\* creator.go:54-97
CreateServiceChi(template) ==
    /\ Return(Generated("chi", template, NoHost,
                 IF template # NoTemplate THEN FromTemplate("chi", template)
                 ELSE DefaultServiceChi))
    /\ UNCHANGED notService

\* creator.go:100-116
CreateServiceCluster(template) ==
    /\ Return(Generated("cluster", template, NoHost,
                 IF template # NoTemplate THEN FromTemplate("cluster", template)
                 ELSE NoService))
    /\ UNCHANGED notService

\* creator.go:119-135
CreateServiceShard(template) ==
    /\ Return(Generated("shard", template, NoHost,
                 IF template # NoTemplate THEN FromTemplate("shard", template)
                 ELSE NoService))
    /\ UNCHANGED notService

\* creator.go:138-189
CreateServiceHost(host, template) ==
    /\ Return(Generated("host", template, host.Name,
                 IF template # NoTemplate THEN FromTemplate("host", template)
                 ELSE DefaultServiceHost(host)))
    /\ UNCHANGED notService

(***************************************************************************)
(* Creator: StatefulSet assembly (creator.go:278-682)                      *)
(***************************************************************************)
\* operations applied to one StatefulSet after it was built
MaxSteps == 2

NoStatefulSet == [Absent |-> TRUE]
NoStsHost == [Absent |-> TRUE]

\* fixed names and mount paths
ClickHouseContainerName == "clickhouse"
ClickHouseLogContainerName == "clickhouse-log"
dirPathConfigd == "/etc/clickhouse-server/config.d/"
dirPathUsersd == "/etc/clickhouse-server/users.d/"
dirPathConfd == "/etc/clickhouse-server/conf.d/"
dirPathClickHouseData == "/var/lib/clickhouse"
dirPathClickHouseLog == "/var/log/clickhouse-server"

\* names of the ConfigMaps of the installation and of a host
configMapCommonName == "chi-common-configd"
configMapCommonUsersName == "chi-common-usersd"
CreateConfigMapPodName(host) == "chi-deploy-confd-" \o host.Name
CreatePodHostname(host) == "chi-" \o host.Name \o "-0"

ContainerPort(name, port, hostPort) ==
    [Name |-> name, ContainerPort |-> port, HostPort |-> hostPort]

\* creator.go:664-669
newVolumeMount(name, mountPath) == [Name |-> name, MountPath |-> mountPath]

\* .spec.templates.volumeClaimTemplates of the installation, by name
VolumeClaimTemplateNames == {"data", "log"}

\* chi.GetVolumeClaimTemplate(name): ok
GetVolumeClaimTemplate(name) == name \in VolumeClaimTemplateNames

\* .spec.templates.podTemplates of the installation (chiv1.ChiPodTemplate)
PodTemplates ==
    ("pt1" :> [Name |-> "pt1",
               Containers |-> << [Name |-> ClickHouseContainerName,
                                  Ports |-> << ContainerPort("tcp", 9000, 9000) >>,
                                  VolumeMounts |-> <<>>] >>,
               Volumes |-> <<>>])
 @@ ("pt2" :> [Name |-> "pt2",
               Containers |-> << [Name |-> ClickHouseContainerName,
                                  Ports |-> << ContainerPort("tcp", 9000, 0),
                                               ContainerPort("tcp", 9002, 0),
                                               ContainerPort("http", 8123, 0) >>,
                                  VolumeMounts |->
                                      << newVolumeMount("data", dirPathClickHouseData) >>] >>,
               Volumes |-> <<>>])
 @@ ("pt3" :> [Name |-> "pt3",
               Containers |-> << [Name |-> ClickHouseContainerName,
                                  Ports |-> <<>>,
                                  VolumeMounts |->
                                      << newVolumeMount("scratch", dirPathClickHouseData) >>],
                                 [Name |-> "sidecar",
                                  Ports |-> << ContainerPort("metrics", 9363, 0) >>,
                                  VolumeMounts |->
                                      << newVolumeMount("log", "/logs"),
                                         newVolumeMount("log", "/logs2") >>] >>,
               Volumes |-> << "scratch" >>])

\* hosts: assigned ports and referenced templates
StsHosts ==
    { [Name |-> "0-0", TcpPort |-> ports[1], HttpPort |-> ports[2],
       InterserverHttpPort |-> ports[3],
       Templates |-> [PodTemplate |-> t[1], DataVolumeClaimTemplate |-> t[2],
                      LogVolumeClaimTemplate |-> t[3]]] :
      ports \in { <<9000, 8123, 9009>>, <<9001, 8124, 9010>> },
      t \in { <<"", "", "">>, <<"", "data", "log">>, <<"pt1", "data", "">>,
              <<"pt2", "data", "log">>, <<"pt3", "data", "">>, <<"pt3", "unknown", "log">>,
              <<"missing", "log", "">> } }

\* host.GetPodTemplate(): template, ok
GetPodTemplateOk(host) == host.Templates.PodTemplate \in DOMAIN PodTemplates

\* creator.go:603-642
newDefaultPodTemplate(name) ==
    [Name |-> name,
     Containers |-> << [Name |-> ClickHouseContainerName,
                        Ports |-> << ContainerPort(chDefaultHttpPortName,
                                                   chDefaultHttpPortNumber, 0),
                                     ContainerPort(chDefaultTcpPortName,
                                                   chDefaultTcpPortNumber, 0),
                                     ContainerPort(chDefaultInterserverHttpPortName,
                                                   chDefaultInterserverHttpPortNumber, 0) >>,
                        VolumeMounts |-> <<>>] >>,
     Volumes |-> <<>>]

\* creator.go:357-379 (a copy of the referenced template, or the default
\* one); templates are the named pod templates as they are at the call
getPodTemplateFrom(templates, host) ==
    IF host.Templates.PodTemplate \in DOMAIN templates
    THEN templates[host.Templates.PodTemplate]
    ELSE newDefaultPodTemplate("chi-" \o host.Name)

getPodTemplate(host) == getPodTemplateFrom(PodTemplates, host)

\* creator.go:286-306
BaseStatefulSet(host) ==
    [Name |-> "chi-" \o host.Name,
     TemplateName |-> "",
     Containers |-> <<>>,
     Volumes |-> <<>>,
     HostAliases |-> <<>>,
     VolumeClaimTemplates |-> <<>>]

\* creator.go:541-545
statefulSetAssignPodTemplate(dst, template) ==
    [dst EXCEPT !.TemplateName = template.Name,
                !.Containers = template.Containers,
                !.Volumes = template.Volumes]

FirstIndex(indexes) == CHOOSE j \in indexes : \A k \in indexes : j <= k

\* creator.go:558-573
AppendPortAlways(container, name, port) ==
    [container EXCEPT !.Ports = Append(@, ContainerPort(name, port, 0))]
ensurePortByName(container, name, port) ==
    LET found == {j \in 1..Len(container.Ports) : container.Ports[j].Name = name}
    IN  IF found # {}
        THEN [container EXCEPT !.Ports[FirstIndex(found)] =
                                   [@ EXCEPT !.HostPort = 0, !.ContainerPort = port]]
        ELSE [container EXCEPT !.Ports = Append(@, ContainerPort(name, port, 0))]

\* creator.go:547-556
ensureNamedPortsSpecified(s, host) ==
    [s EXCEPT !.Containers =
        [i \in 1..Len(s.Containers) |->
            ensurePortByName(
                ensurePortByName(
                    ensurePortByName(s.Containers[i], chDefaultTcpPortName, host.TcpPort),
                    chDefaultHttpPortName, host.HttpPort),
                chDefaultInterserverHttpPortName, host.InterserverHttpPort)]]

\* creator.go:382-408
setupConfigMapVolumes(s, host) ==
    [s EXCEPT !.Volumes = @ \o << configMapCommonName, configMapCommonUsersName,
                                  CreateConfigMapPodName(host) >>,
              !.Containers =
                  [i \in 1..Len(s.Containers) |->
                      [s.Containers[i] EXCEPT !.VolumeMounts = @ \o
                          << newVolumeMount(configMapCommonName, dirPathConfigd),
                             newVolumeMount(configMapCommonUsersName, dirPathUsersd),
                             newVolumeMount(CreateConfigMapPodName(host), dirPathConfd) >>]]]

\* creator.go:645-647
addContainer(s, container) == [s EXCEPT !.Containers = Append(@, container)]

\* creator.go:315-354
setupStatefulSetPodTemplateFrom(templates, s, host) ==
    LET assigned == statefulSetAssignPodTemplate(s, getPodTemplateFrom(templates, host))
        named == ensureNamedPortsSpecified(assigned, host)
        aliased == [named EXCEPT !.HostAliases =
                       << [IP |-> "127.0.0.1", Hostnames |-> << CreatePodHostname(host) >>] >>]
        mounted == setupConfigMapVolumes(aliased, host)
    IN  IF host.Templates.LogVolumeClaimTemplate # ""
        THEN addContainer(mounted, [Name |-> ClickHouseLogContainerName,
                                    Ports |-> <<>>, VolumeMounts |-> <<>>])
        ELSE mounted

setupStatefulSetPodTemplate(s, host) == setupStatefulSetPodTemplateFrom(PodTemplates, s, host)

\* creator.go:672-682: index of the first container with the name, 0 for nil
getContainerByName(s, name) ==
    LET found == {i \in 1..Len(s.Containers) : s.Containers[i].Name = name}
    IN  IF found = {} THEN 0 ELSE FirstIndex(found)

\* creator.go:576-600
AppendVolumeClaimTemplateAlways(s, name) ==
    [s EXCEPT !.VolumeClaimTemplates = Append(@, name)]
statefulSetAppendVolumeClaimTemplate(s, name) ==
    IF \E i \in 1..Len(s.VolumeClaimTemplates) : s.VolumeClaimTemplates[i] = name
    THEN s
    ELSE [s EXCEPT !.VolumeClaimTemplates = Append(@, name)]

\* creator.go:442-532
ApplyVolumeClaimTemplateNoDedup(s, containerName, volumeClaimTemplateName, mountPath) ==
    LET c == getContainerByName(s, containerName)
    IN  IF volumeClaimTemplateName = "" \/ mountPath = ""
           \/ ~GetVolumeClaimTemplate(volumeClaimTemplateName) \/ c = 0
        THEN s
        ELSE [s EXCEPT !.VolumeClaimTemplates = Append(@, volumeClaimTemplateName),
                       !.Containers[c].VolumeMounts =
                           Append(@, newVolumeMount(volumeClaimTemplateName, mountPath))]
\* setupStatefulSetApplyVolumeClaimTemplate without the check of the mount path
ApplyVolumeClaimTemplateAnyPath(s, containerName, volumeClaimTemplateName, mountPath) ==
    LET c == getContainerByName(s, containerName)
    IN  IF volumeClaimTemplateName = "" \/ mountPath = ""
           \/ ~GetVolumeClaimTemplate(volumeClaimTemplateName) \/ c = 0
        THEN s
        ELSE IF \E i \in 1..Len(s.Containers[c].VolumeMounts) :
                    s.Containers[c].VolumeMounts[i].Name = volumeClaimTemplateName THEN s
        ELSE [statefulSetAppendVolumeClaimTemplate(s, volumeClaimTemplateName)
                 EXCEPT !.Containers[c].VolumeMounts =
                            Append(@, newVolumeMount(volumeClaimTemplateName, mountPath))]
setupStatefulSetApplyVolumeClaimTemplate(s, containerName, volumeClaimTemplateName, mountPath) ==
    LET c == getContainerByName(s, containerName)
    IN  IF volumeClaimTemplateName = "" THEN s
        ELSE IF mountPath = "" THEN s
        ELSE IF ~GetVolumeClaimTemplate(volumeClaimTemplateName) THEN s
        ELSE IF c = 0 THEN s
        ELSE IF \E i \in 1..Len(s.Containers[c].VolumeMounts) :
                    s.Containers[c].VolumeMounts[i].Name = volumeClaimTemplateName THEN s
        ELSE IF \E i \in 1..Len(s.Containers[c].VolumeMounts) :
                    s.Containers[c].VolumeMounts[i].MountPath = mountPath THEN s
        ELSE [statefulSetAppendVolumeClaimTemplate(s, volumeClaimTemplateName)
                 EXCEPT !.Containers[c].VolumeMounts =
                            Append(@, newVolumeMount(volumeClaimTemplateName, mountPath))]

\* creator.go:411-428
RECURSIVE ApplyVolumeMountsFrom(_, _)
ApplyVolumeMountsFrom(s, mounts) ==
    IF mounts = <<>> THEN s
    ELSE ApplyVolumeMountsFrom(
             IF GetVolumeClaimTemplate(Head(mounts).Name)
             THEN statefulSetAppendVolumeClaimTemplate(s, Head(mounts).Name) ELSE s,
             Tail(mounts))

RECURSIVE AllVolumeMounts(_, _)
AllVolumeMounts(containers, i) ==
    IF i > Len(containers) THEN <<>>
    ELSE containers[i].VolumeMounts \o AllVolumeMounts(containers, i + 1)

setupStatefulSetApplyVolumeMounts(s) ==
    ApplyVolumeMountsFrom(s, AllVolumeMounts(s.Containers, 1))

\* creator.go:431-439
RECURSIVE ApplyVolumeClaimTemplatesFrom(_, _, _)
ApplyVolumeClaimTemplatesFrom(s, host, i) ==
    IF i > Len(s.Containers) THEN s
    ELSE ApplyVolumeClaimTemplatesFrom(
             setupStatefulSetApplyVolumeClaimTemplate(
                 setupStatefulSetApplyVolumeClaimTemplate(
                     s, s.Containers[i].Name, host.Templates.DataVolumeClaimTemplate,
                     dirPathClickHouseData),
                 s.Containers[i].Name, host.Templates.LogVolumeClaimTemplate,
                 dirPathClickHouseLog),
             host, i + 1)

setupStatefulSetApplyVolumeClaimTemplates(s, host) == ApplyVolumeClaimTemplatesFrom(s, host, 1)

\* creator.go:535-538
setupStatefulSetVolumeClaimTemplates(s, host) ==
    setupStatefulSetApplyVolumeClaimTemplates(setupStatefulSetApplyVolumeMounts(s), host)

\* creator.go:279-312: the StatefulSet CreateStatefulSet returns
NewStatefulSetFrom(templates, host) ==
    setupStatefulSetVolumeClaimTemplates(
        setupStatefulSetPodTemplateFrom(templates, BaseStatefulSet(host), host), host)

NewStatefulSet(host) == NewStatefulSetFrom(PodTemplates, host)

StatefulSetIdle ==
    /\ sts = NoStatefulSet
    /\ stsHost = NoStsHost
    /\ stsHist = <<>>
    /\ stsOps = <<>>

Op(name, args) == [op |-> name, args |-> args]

\* creator.go:279-312
CreateStatefulSet(host) ==
    /\ sts = NoStatefulSet
    /\ sts' = NewStatefulSet(host)
    /\ stsHost' = host
    /\ stsHist' = << sts >>
    /\ stsOps' = << Op("CreateStatefulSet", <<>>) >>
    /\ UNCHANGED notStatefulSet

\* creator.go:286-327: CreateStatefulSet up to statefulSetAssignPodTemplate
AssignPodTemplate(host) ==
    /\ sts = NoStatefulSet
    /\ sts' = statefulSetAssignPodTemplate(BaseStatefulSet(host), getPodTemplate(host))
    /\ stsHost' = host
    /\ stsHist' = << sts >>
    /\ stsOps' = << Op("statefulSetAssignPodTemplate", <<>>) >>
    /\ UNCHANGED notStatefulSet

\* one more operation on the StatefulSet built so far
Applied(op, s) ==
    /\ sts # NoStatefulSet
    /\ Len(stsOps) <= MaxSteps
    /\ sts' = s
    /\ stsHist' = Append(stsHist, sts)
    /\ stsOps' = Append(stsOps, op)
    /\ UNCHANGED stsHost

\* creator.go:558-573 on container i
EnsurePortByName(i, name, port) ==
    /\ sts # NoStatefulSet
    /\ i \in 1..Len(sts.Containers)
    /\ Applied(Op("ensurePortByName", <<i, name, port>>),
               [sts EXCEPT !.Containers[i] = ensurePortByName(@, name, port)])
    /\ UNCHANGED notStatefulSet

\* creator.go:547-556
EnsureNamedPortsSpecified ==
    /\ sts # NoStatefulSet
    /\ Applied(Op("ensureNamedPortsSpecified", <<>>), ensureNamedPortsSpecified(sts, stsHost))
    /\ UNCHANGED notStatefulSet

\* creator.go:442-532
SetupStatefulSetApplyVolumeClaimTemplate(containerName, volumeClaimTemplateName, mountPath) ==
    /\ sts # NoStatefulSet
    /\ Applied(Op("setupStatefulSetApplyVolumeClaimTemplate",
                  <<containerName, volumeClaimTemplateName, mountPath>>),
               setupStatefulSetApplyVolumeClaimTemplate(
                   sts, containerName, volumeClaimTemplateName, mountPath))
    /\ UNCHANGED notStatefulSet

\* creator.go:411-428
SetupStatefulSetApplyVolumeMounts ==
    /\ sts # NoStatefulSet
    /\ Applied(Op("setupStatefulSetApplyVolumeMounts", <<>>),
               setupStatefulSetApplyVolumeMounts(sts))
    /\ UNCHANGED notStatefulSet

\* creator.go:431-439
SetupStatefulSetApplyVolumeClaimTemplates ==
    /\ sts # NoStatefulSet
    /\ Applied(Op("setupStatefulSetApplyVolumeClaimTemplates", <<>>),
               setupStatefulSetApplyVolumeClaimTemplates(sts, stsHost))
    /\ UNCHANGED notStatefulSet

\* creator.go:576-600
StatefulSetAppendVolumeClaimTemplate(name) ==
    /\ sts # NoStatefulSet
    /\ Applied(Op("statefulSetAppendVolumeClaimTemplate", << name >>),
               statefulSetAppendVolumeClaimTemplate(sts, name))
    /\ UNCHANGED notStatefulSet

(***************************************************************************)
(* kube managers: STS (worker-service.go:243-295) and PDB (part_000:28-65) *)
(***************************************************************************)
\* most manager calls in one behaviour
MaxKubeCalls == 2

NoCall == [Absent |-> TRUE]

\* the context of the caller, and the one controller.NewContext() returns
CallerContext == "ctx"
NewContext == "controller.NewContext()"

\* dynamic types of the obj argument of STS.Get
ObjTypes == {"meta.Object", "*api.Host", "other"}

\* a client call issued by a manager method, bound to context ctx
ClientCall(method, ctx) == [method |-> method, ctx |-> ctx]

KubeIdle ==
    /\ kubeCall = NoCall
    /\ kubeCallerDone = FALSE
    /\ kubeLog = <<>>

\* a manager method is entered with a context of its caller and issues call
Issue(call) ==
    /\ kubeCall = NoCall
    /\ Len(kubeLog) < MaxKubeCalls
    /\ kubeCall' = call
    /\ kubeCallerDone' = FALSE
    /\ UNCHANGED kubeLog

\* worker-service.go:258-270
STSGet(objType) ==
    /\ objType \in ObjTypes
    /\ IF objType = "meta.Object" THEN Issue(ClientCall("STS.Get", NewContext))
       ELSE IF objType = "*api.Host" THEN Issue(ClientCall("STS.Get", CallerContext))
       ELSE /\ kubeCall = NoCall
            /\ Len(kubeLog) < MaxKubeCalls
            /\ kubeLog' = Append(kubeLog, [method |-> "STS.Get", ctx |-> "none",
                                           result |-> "unknown type"])
            /\ kubeCallerDone' = FALSE
            /\ UNCHANGED kubeCall
    /\ UNCHANGED notKube

\* worker-service.go:272-274
STSCreate == Issue(ClientCall("STS.Create", CallerContext)) /\ UNCHANGED notKube

\* worker-service.go:277-279
STSUpdate == Issue(ClientCall("STS.Update", CallerContext)) /\ UNCHANGED notKube

\* worker-service.go:282-284
STSDelete == Issue(ClientCall("STS.Delete", CallerContext)) /\ UNCHANGED notKube

\* worker-service.go:286-295
STSList == Issue(ClientCall("STS.List", CallerContext)) /\ UNCHANGED notKube

\* part_000:38-41
PDBCreate == Issue(ClientCall("PDB.Create", CallerContext)) /\ UNCHANGED notKube

\* part_000:43-50
PDBGet == Issue(ClientCall("PDB.Get", NewContext)) /\ UNCHANGED notKube

\* part_000:52-55
PDBUpdate == Issue(ClientCall("PDB.Update", NewContext)) /\ UNCHANGED notKube

\* part_000:57-65
PDBDelete == Issue(ClientCall("PDB.Delete", CallerContext)) /\ UNCHANGED notKube

\* the caller's context is cancelled or expires while the call is in flight
CancelCaller ==
    /\ kubeCall # NoCall
    /\ ~kubeCallerDone
    /\ kubeCallerDone' = TRUE
    /\ UNCHANGED <<kubeCall, kubeLog>>
    /\ UNCHANGED notKube

\* the platform answers the call in flight
ClientReturns ==
    /\ kubeCall # NoCall
    /\ kubeLog' = Append(kubeLog, [method |-> kubeCall.method, ctx |-> kubeCall.ctx,
                                   result |-> "answered"])
    /\ kubeCall' = NoCall
    /\ UNCHANGED kubeCallerDone
    /\ UNCHANGED notKube

\* the call in flight ends because the context it is bound to is done
ClientCancelled ==
    /\ kubeCall # NoCall
    /\ kubeCall.ctx = CallerContext
    /\ kubeCallerDone
    /\ kubeLog' = Append(kubeLog, [method |-> kubeCall.method, ctx |-> kubeCall.ctx,
                                   result |-> "context done"])
    /\ kubeCall' = NoCall
    /\ UNCHANGED kubeCallerDone
    /\ UNCHANGED notKube

(***************************************************************************)
(* ChkCluster: layout flags, traversals and lookups                        *)
(***************************************************************************)
\* most shards (and most replicas) a layout lists
MaxShards == 2

\* most hosts one shard (or one replica) lists
MaxShardHosts == 2

ShardNames == {"a", "b"}

\* no Walk*/Find*/FirstHost call has returned yet
NoClusterCall == [Absent |-> TRUE]

\* a nil *ChkShard result
NoShard == [Absent |-> TRUE]

\* a nil *api.Host result
NoClusterHost == [Absent |-> TRUE]

SeqsUpTo(S, n) == UNION {[1..k -> S] : k \in 0..n}

\* the *api.Host at 0-based coordinates (shard, replica)
ClusterHost(shard, replica) == [shard |-> shard, replica |-> replica]

\* the values of Layout.Shards: each shard has a name and lists its hosts by replica
ShardLists ==
    {[i \in 1..Len(d) |->
        [name |-> d[i][1],
         hosts |-> [r \in 1..d[i][2] |-> ClusterHost(i - 1, r - 1)]]]
     : d \in SeqsUpTo(ShardNames \X (0..MaxShardHosts), MaxShards)}

\* the values of Layout.Replicas: each replica lists its hosts by shard, and
\* every replica lists as many as the others
ReplicaLists ==
    {[i \in 1..k |->
        [index |-> i - 1,
         hosts |-> [sh \in 1..n |-> ClusterHost(sh - 1, i - 1)]]]
     : k \in 0..MaxShards, n \in 0..MaxShardHosts}

\* NewChkClusterLayout with the listed shards and replicas: both flags are
\* the zero value
ChkClusterLayout(shards, replicas) ==
    [Shards |-> shards, Replicas |-> replicas,
     ShardsSpecified |-> FALSE, ReplicasSpecified |-> FALSE]

FillFlags(l) ==
    [l EXCEPT !.ShardsSpecified = IF Len(l.Shards) > 0 THEN TRUE ELSE @,
              !.ReplicasSpecified = IF Len(l.Replicas) > 0 THEN TRUE ELSE @]

isShardSpecified(l) == l.ShardsSpecified = TRUE

isReplicaSpecified(l) == (l.ShardsSpecified = FALSE) /\ (l.ReplicasSpecified = TRUE)

\* IsShardSpecified without its fallback to the shard-based layout
ShardFlagOnly(l) == isShardSpecified(l)

IsShardSpecified(l) ==
    IF ~isShardSpecified(l) /\ ~isReplicaSpecified(l) THEN TRUE
    ELSE isShardSpecified(l)

\* the callback of a walk: it returns an error on the arguments in bad
Callback(bad, args) == IF args \in bad THEN "error" ELSE Nil

\* a walk that stops at the first error of its callback
RECURSIVE StopAtFirstError(_, _, _, _)
StopAtFirstError(elems, i, bad, acc) ==
    IF i > Len(elems) THEN acc
    ELSE IF Callback(bad, elems[i]) # Nil
         THEN [calls |-> Append(acc.calls, elems[i]),
               res |-> Append(acc.res, Callback(bad, elems[i]))]
         ELSE StopAtFirstError(elems, i + 1, bad,
                  [calls |-> Append(acc.calls, elems[i]),
                   res |-> Append(acc.res, Callback(bad, elems[i]))])

\* the loop of a walk from element i on: f is called on elems[i] and what it
\* returns is appended to res
RECURSIVE WalkLoop(_, _, _, _)
WalkLoop(elems, i, bad, acc) ==
    IF i > Len(elems) THEN acc
    ELSE WalkLoop(elems, i + 1, bad,
             [calls |-> Append(acc.calls, elems[i]),
              res |-> Append(acc.res, Callback(bad, elems[i]))])

RECURSIVE Flatten(_)
Flatten(ss) == IF ss = <<>> THEN <<>> ELSE Head(ss) \o Flatten(Tail(ss))

\* the callback arguments of each walk, in the order of its loops
ShardArgs(l) == [i \in 1..Len(l.Shards) |-> [index |-> i - 1, shard |-> l.Shards[i]]]

ReplicaArgs(l) == [i \in 1..Len(l.Replicas) |-> [index |-> i - 1, replica |-> l.Replicas[i]]]

HostArgs(l) ==
    Flatten([i \in 1..Len(l.Shards) |->
                [r \in 1..Len(l.Shards[i].hosts) |-> [host |-> l.Shards[i].hosts[r]]]])

HostByShardArgs(l) ==
    Flatten([i \in 1..Len(l.Shards) |->
                [r \in 1..Len(l.Shards[i].hosts) |->
                    [shard |-> i - 1, replica |-> r - 1, host |-> l.Shards[i].hosts[r]]]])

HostByReplicaArgs(l) ==
    Flatten([i \in 1..Len(l.Replicas) |->
                [sh \in 1..Len(l.Replicas[i].hosts) |->
                    [shard |-> sh - 1, replica |-> i - 1, host |-> l.Replicas[i].hosts[sh]]]])

Walked == [calls |-> <<>>, res |-> <<>>]

WalkShards(l, bad) == WalkLoop(ShardArgs(l), 1, bad, Walked)

WalkReplicas(l, bad) == WalkLoop(ReplicaArgs(l), 1, bad, Walked)

WalkHosts(l, bad) == WalkLoop(HostArgs(l), 1, bad, Walked)

WalkHostsByShards(l, bad) == WalkLoop(HostByShardArgs(l), 1, bad, Walked)

WalkHostsByReplicas(l, bad) == WalkLoop(HostByReplicaArgs(l), 1, bad, Walked)

\* needles of FindShard: a name or an index
Needle(type, v) == [type |-> type, v |-> v]

Needles ==
    {Needle("string", n) : n \in ShardNames} \cup {Needle("int", i) : i \in 0..MaxShards}

\* the callback of FindShard on (index, shard): resultShard is assigned on a match
FindShardStep(needle, args, resultShard) ==
    IF needle.type = "string"
    THEN IF args.shard.name = needle.v THEN args ELSE resultShard
    ELSE IF args.index = needle.v THEN args ELSE resultShard

RECURSIVE FindShardFrom(_, _, _, _)
FindShardFrom(elems, i, needle, resultShard) ==
    IF i > Len(elems) THEN resultShard
    ELSE FindShardFrom(elems, i + 1, needle, FindShardStep(needle, elems[i], resultShard))

\* FindShard: the shard found, with the index it is listed at, or NoShard
FindShard(l, needle) == FindShardFrom(WalkShards(l, {}).calls, 1, needle, NoShard)

\* the callback of FirstHost: result is assigned while it is nil
RECURSIVE FirstHostFrom(_, _, _)
FirstHostFrom(elems, i, first) ==
    IF i > Len(elems) THEN first
    ELSE FirstHostFrom(elems, i + 1, IF first = NoClusterHost THEN elems[i].host ELSE first)

FirstHost(l) == FirstHostFrom(WalkHosts(l, {}).calls, 1, NoClusterHost)

ClusterIdle ==
    /\ layout = ChkClusterLayout(<<>>, <<>>)
    /\ filled = FALSE
    /\ clusterCall = NoClusterCall

ClusterInit ==
    /\ \E shards \in ShardLists, replicas \in ReplicaLists :
           layout = ChkClusterLayout(shards, replicas)
    /\ filled = FALSE
    /\ clusterCall = NoClusterCall

FillShardReplicaSpecified ==
    /\ layout' = FillFlags(layout)
    /\ filled' = TRUE
    /\ UNCHANGED clusterCall
    /\ UNCHANGED notCluster

\* a traversal or lookup returns to its caller; the cluster is left as it was.
\* One call is observed per behaviour, on the layout as it is then.
ClusterReturn(call) ==
    /\ clusterCall = NoClusterCall
    /\ clusterCall' = call
    /\ UNCHANGED <<layout, filled>>

WalkCall(kind, bad, walked) ==
    [op |-> kind, bad |-> bad, calls |-> walked.calls, res |-> walked.res]

\* the callbacks a walk over elems is run with: failing on nothing, on one
\* element, or on every element
Callbacks(elems) == {{}} \cup {{elems[i]} : i \in 1..Len(elems)} \cup {Range(elems)}

CallWalkShards(bad) ==
    /\ ClusterReturn(WalkCall("WalkShards", bad, WalkShards(layout, bad)))
    /\ UNCHANGED notCluster

CallWalkReplicas(bad) ==
    /\ ClusterReturn(WalkCall("WalkReplicas", bad, WalkReplicas(layout, bad)))
    /\ UNCHANGED notCluster

CallWalkHosts(bad) ==
    /\ ClusterReturn(WalkCall("WalkHosts", bad, WalkHosts(layout, bad)))
    /\ UNCHANGED notCluster

CallWalkHostsByShards(bad) ==
    /\ ClusterReturn(WalkCall("WalkHostsByShards", bad, WalkHostsByShards(layout, bad)))
    /\ UNCHANGED notCluster

CallWalkHostsByReplicas(bad) ==
    /\ ClusterReturn(WalkCall("WalkHostsByReplicas", bad, WalkHostsByReplicas(layout, bad)))
    /\ UNCHANGED notCluster

CallFindShard(needle) ==
    /\ ClusterReturn([op |-> "FindShard", needle |-> needle, found |-> FindShard(layout, needle)])
    /\ UNCHANGED notCluster

CallFirstHost ==
    /\ ClusterReturn([op |-> "FirstHost", found |-> FirstHost(layout)])
    /\ UNCHANGED notCluster

(***************************************************************************)
(* clickhouse.Connection: lazy, cached connection                          *)
(***************************************************************************)
\* most QueryContext/Exec calls on one Connection
MaxSQLCalls == 3

\* c.conn is nil
NoConn == [Absent |-> TRUE]

\* what databasesql.Open followed by PingContext can do
ConnectOutcomes == {"ok", "open failed", "ping failed"}

\* what conn.QueryContext / conn.ExecContext can do
RunOutcomes == {"ok", "failed"}

SQLs == {"", "SELECT 1"}

\* connect: c.conn as the call leaves it; id names the *sql.DB it opens
connect(c, outcome, id) == IF outcome = "ok" THEN [openedBy |-> id] ELSE c

\* ensureConnected that connects on every call
AlwaysConnect(c, outcome, id) ==
    [conn |-> connect(c, outcome, id), attempt |-> outcome,
     connected |-> connect(c, outcome, id) # NoConn]

\* ensureConnected: c.conn after the call, the connect attempt it made
\* ("none": it made none) and what it returned
ensureConnected(c, outcome, id) ==
    IF c # NoConn THEN [conn |-> c, attempt |-> "none", connected |-> TRUE]
    ELSE [conn |-> connect(c, outcome, id), attempt |-> outcome,
          connected |-> connect(c, outcome, id) # NoConn]

\* the body shared by QueryContext and Exec: what the call did and returned
\* (run: what the driver call on c.conn did, "none" when it was not made)
RunSQL(method, c, sql, connectOutcome, runOutcome, id) ==
    IF Len(sql) = 0
    THEN [method |-> method, sql |-> sql, before |-> c, attempt |-> "none",
          used |-> NoConn, run |-> "none", err |-> Nil, after |-> c]
    ELSE LET e == ensureConnected(c, connectOutcome, id)
         IN IF ~e.connected
            THEN [method |-> method, sql |-> sql, before |-> c, attempt |-> e.attempt,
                  used |-> NoConn, run |-> "none", err |-> "FAILED connect",
                  after |-> e.conn]
            ELSE [method |-> method, sql |-> sql, before |-> c, attempt |-> e.attempt,
                  used |-> e.conn, run |-> runOutcome,
                  err |-> IF runOutcome = "ok" THEN Nil ELSE "FAILED " \o method,
                  after |-> e.conn]

\* NewConnection: nothing is opened
ConnIdle ==
    /\ conn = NoConn
    /\ connLog = <<>>

SQLReturn(call) ==
    /\ Len(connLog) < MaxSQLCalls
    /\ conn' = call.after
    /\ connLog' = Append(connLog, call)

QueryContext(sql, connectOutcome, runOutcome) ==
    /\ SQLReturn(RunSQL("Query", conn, sql, connectOutcome, runOutcome, Len(connLog) + 1))
    /\ UNCHANGED notConn

Exec(sql, connectOutcome, runOutcome) ==
    /\ SQLReturn(RunSQL("Exec", conn, sql, connectOutcome, runOutcome, Len(connLog) + 1))
    /\ UNCHANGED notConn

(***************************************************************************)
(* Creator: StatefulSets of hosts that share a pod template                *)
(***************************************************************************)
\* most CreateStatefulSet calls in a row
MaxWorkloads == 2

\* hosts of one installation: their names and ports differ, several of them
\* reference the same pod template
SharedHosts ==
    { [Name |-> name, TcpPort |-> ports[1], HttpPort |-> ports[2],
       InterserverHttpPort |-> ports[3],
       Templates |-> [PodTemplate |-> t, DataVolumeClaimTemplate |-> "data",
                      LogVolumeClaimTemplate |-> log]] :
      name \in {"0-0", "0-1"},
      ports \in { <<9000, 8123, 9009>>, <<9001, 8124, 9010>> },
      t \in {"", "pt1", "pt2", "pt3"},
      log \in {"", "log"} }

\* a named pod template whose containers are the ones StatefulSet s works on
PodTemplateShared(template, s) ==
    [template EXCEPT !.Containers = [i \in 1..Len(template.Containers) |-> s.Containers[i]]]

\* creator.go:365: the StatefulSet is built from podTemplate.DeepCopy(), so
\* the named template is, after CreateStatefulSet returned s, what it was
podTemplateAfterCreate(template, s) == template

TemplatesIdle ==
    /\ podTemplates = PodTemplates
    /\ workloads = <<>>

\* creator.go:279-312, for one more host of the installation
CreateStatefulSetForHost(host) ==
    /\ Len(workloads) < MaxWorkloads
    /\ workloads' = Append(workloads, [host |-> host,
                                       statefulSet |-> NewStatefulSetFrom(podTemplates, host)])
    /\ podTemplates' =
           IF host.Templates.PodTemplate \in DOMAIN podTemplates
           THEN [podTemplates EXCEPT ![host.Templates.PodTemplate] =
                    podTemplateAfterCreate(@, NewStatefulSetFrom(podTemplates, host))]
           ELSE podTemplates
    /\ UNCHANGED notTemplates

(***************************************************************************)
(* Specifications                                                          *)
(***************************************************************************)
Init ==
    /\ WorkerInit
    /\ OptionsIdle
    /\ ServiceIdle
    /\ StatefulSetIdle
    /\ KubeIdle
    /\ ClusterIdle
    /\ ConnIdle
    /\ TemplatesIdle

Next ==
    \/ \E service \in DesiredServices, done \in BOOLEAN : Enter(service, done)
    \/ Cancel
    \/ \E outcome \in {"found", "notfound", "other"} : GetService(outcome)
    \/ UpdateServiceDone
    \/ UpdateServiceTypeChange
    \/ \E outcome \in {"nil", "notfound", "other"} : UpdateServiceSubmit(outcome)
    \/ \E outcome \in {"nil", "other"} : DeleteServiceIfExists(outcome)
    \/ CreateServiceDone
    \/ \E outcome \in {"nil", "exists", "other"} : CreateService(outcome)

Spec == Init /\ [][Next]_vars

InitOptions ==
    /\ OptionsInit
    /\ WorkerIdle
    /\ ServiceIdle
    /\ StatefulSetIdle
    /\ KubeIdle
    /\ ClusterIdle
    /\ ConnIdle
    /\ TemplatesIdle

NextOptions ==
    \/ \E host \in Hosts \cup {NoHost} : ExcludeHost(host)
    \/ \E hosts \in {<<>>, <<"h1", "h2">>, <<"h2">>} : ExcludeHosts(hosts)
    \/ \E attrs \in AttributeValues \cup {NilAttributes} : ExcludeReconcileAttributes(attrs)
    \/ \E host \in Hosts : Ask(host)

SpecOptions == InitOptions /\ [][NextOptions]_vars

InitService ==
    /\ ServiceIdle
    /\ WorkerIdle
    /\ OptionsIdle
    /\ StatefulSetIdle
    /\ KubeIdle
    /\ ClusterIdle
    /\ ConnIdle
    /\ TemplatesIdle

NextService ==
    \/ \E template \in ServiceTemplates \cup {NoTemplate} : CreateServiceChi(template)
    \/ \E template \in ServiceTemplates \cup {NoTemplate} : CreateServiceCluster(template)
    \/ \E template \in ServiceTemplates \cup {NoTemplate} : CreateServiceShard(template)
    \/ \E host \in GenHosts, template \in ServiceTemplates \cup {NoTemplate} :
          CreateServiceHost(host, template)

SpecService == InitService /\ [][NextService]_vars

InitStatefulSet ==
    /\ StatefulSetIdle
    /\ WorkerIdle
    /\ OptionsIdle
    /\ ServiceIdle
    /\ KubeIdle
    /\ ClusterIdle
    /\ ConnIdle
    /\ TemplatesIdle

\* arguments of the ensurePortByName calls: container index, name, port
EnsurePortCalls ==
    { <<i, call[1], call[2]>> :
        i \in 1..2, call \in { <<"tcp", 9001>>, <<"tcp", 9440>>, <<"metrics", 9001>> } }

\* arguments of the setupStatefulSetApplyVolumeClaimTemplate calls: container
\* name, template name, mount path
VolumeClaimCalls ==
    ({ClickHouseContainerName, "sidecar"} \X {"data", "log"}
        \X {dirPathClickHouseData, "/logs"})
    \cup { <<"missing", "data", dirPathClickHouseData>>,
           <<ClickHouseContainerName, "unknown", dirPathClickHouseData>>,
           <<ClickHouseContainerName, "", dirPathClickHouseData>>,
           <<ClickHouseContainerName, "data", "">> }

NextStatefulSet ==
    \/ \E host \in StsHosts : CreateStatefulSet(host)
    \/ \E host \in StsHosts : AssignPodTemplate(host)
    \/ \E call \in EnsurePortCalls : EnsurePortByName(call[1], call[2], call[3])
    \/ EnsureNamedPortsSpecified
    \/ \E call \in VolumeClaimCalls :
          SetupStatefulSetApplyVolumeClaimTemplate(call[1], call[2], call[3])
    \/ SetupStatefulSetApplyVolumeMounts
    \/ SetupStatefulSetApplyVolumeClaimTemplates
    \/ \E name \in VolumeClaimTemplateNames : StatefulSetAppendVolumeClaimTemplate(name)

SpecStatefulSet == InitStatefulSet /\ [][NextStatefulSet]_vars

InitKube ==
    /\ KubeIdle
    /\ WorkerIdle
    /\ OptionsIdle
    /\ ServiceIdle
    /\ StatefulSetIdle
    /\ ClusterIdle
    /\ ConnIdle
    /\ TemplatesIdle

NextKube ==
    \/ \E objType \in ObjTypes : STSGet(objType)
    \/ STSCreate
    \/ STSUpdate
    \/ STSDelete
    \/ STSList
    \/ PDBCreate
    \/ PDBGet
    \/ PDBUpdate
    \/ PDBDelete
    \/ CancelCaller
    \/ ClientReturns
    \/ ClientCancelled

SpecKube == InitKube /\ [][NextKube]_vars

InitCluster ==
    /\ ClusterInit
    /\ WorkerIdle
    /\ OptionsIdle
    /\ ServiceIdle
    /\ StatefulSetIdle
    /\ KubeIdle
    /\ ConnIdle
    /\ TemplatesIdle

NextCluster ==
    \/ FillShardReplicaSpecified
    \/ \E bad \in Callbacks(ShardArgs(layout)) : CallWalkShards(bad)
    \/ \E bad \in Callbacks(ReplicaArgs(layout)) : CallWalkReplicas(bad)
    \/ \E bad \in Callbacks(HostArgs(layout)) : CallWalkHosts(bad)
    \/ \E bad \in Callbacks(HostByShardArgs(layout)) : CallWalkHostsByShards(bad)
    \/ \E bad \in Callbacks(HostByReplicaArgs(layout)) : CallWalkHostsByReplicas(bad)
    \/ \E needle \in Needles : CallFindShard(needle)
    \/ CallFirstHost

SpecCluster == InitCluster /\ [][NextCluster]_vars

InitConn ==
    /\ ConnIdle
    /\ WorkerIdle
    /\ OptionsIdle
    /\ ServiceIdle
    /\ StatefulSetIdle
    /\ KubeIdle
    /\ ClusterIdle
    /\ TemplatesIdle

NextConn ==
    \/ \E sql \in SQLs, co \in ConnectOutcomes, ro \in RunOutcomes : QueryContext(sql, co, ro)
    \/ \E sql \in SQLs, co \in ConnectOutcomes, ro \in RunOutcomes : Exec(sql, co, ro)

SpecConn == InitConn /\ [][NextConn]_vars

InitTemplates ==
    /\ TemplatesIdle
    /\ WorkerIdle
    /\ OptionsIdle
    /\ ServiceIdle
    /\ StatefulSetIdle
    /\ KubeIdle
    /\ ClusterIdle
    /\ ConnIdle

NextTemplates == \E host \in SharedHosts : CreateStatefulSetForHost(host)

SpecTemplates == InitTemplates /\ [][NextTemplates]_vars

(***************************************************************************)
(* Claims about the Service reconcile worker (specification Spec)          *)
(***************************************************************************)
IsPrefix(s, t) == Len(s) <= Len(t) /\ SubSeq(t, 1, Len(s)) = s

\* the call was entered with a live context and has returned
Returned == pc = "return" /\ skipped # "reconcile"

\* the lookup found nothing, or updateService returned an error
NeedsRecreate == curService = NoService \/ updRet \notin {"none", "nil"}

\* C1 as stated: after a found object and a successful Update there is neither
\* a Delete nor a Create; after a lookup that found nothing or a failed Update
\* the call ends with a Delete followed by a Create, whatever the Delete returned.
C1_AsStated ==
    Returned =>
        /\ updRet = "nil" => Range(calls) \cap {"Delete", "Create"} = {}
        /\ NeedsRecreate =>
              /\ Len(calls) >= 2
              /\ SubSeq(calls, Len(calls) - 1, Len(calls)) = <<"Delete", "Create">>

\* C1 amended: the calls of one reconcileService call are Get, then Update only
\* for a found object, and after a successful updateService nothing more; after
\* a lookup that found nothing or a failed updateService a Delete and then a
\* Create, whatever the Delete returned, except that a step entered with the
\* context done issues no call: updateService then returns nil and ends the
\* call, createService then returns nil without a Create.
C1_CallOrder ==
    /\ \E full \in { <<"Get", "Update">>, <<"Get", "Delete", "Create">>,
                     <<"Get", "Update", "Delete", "Create">> } : IsPrefix(calls, full)
    /\ "Update" \in Range(calls) => curService # NoService
    /\ Returned =>
          /\ curService # NoService => updRet # "none"
          /\ updRet = "nil" =>
                calls = IF skipped = "update" THEN <<"Get">> ELSE <<"Get", "Update">>
          /\ NeedsRecreate =>
                calls = (IF updRet \in {"none", "typechange"}
                         THEN <<"Get">> ELSE <<"Get", "Update">>)
                        \o <<"Delete">>
                        \o (IF skipped = "create" THEN <<>> ELSE <<"Create">>)

\* an Update failed, then the Delete failed, and the Create was still issued
C1_Witness ==
    /\ Returned
    /\ updRet = "other"
    /\ delRet = "other"
    /\ calls = <<"Get", "Update", "Delete", "Create">>

\* the found object's type differs from the desired one
TypeDiffers == curService # NoService /\ curService.Type # target.Type

\* C2 as stated: when the current type differs from the desired one,
\* updateService returns an error without an Update and reconcileService
\* then issues the Delete and the Create of the desired object.
C2_AsStated ==
    (Returned /\ TypeDiffers) =>
        /\ updRet = "typechange"
        /\ "Update" \notin Range(calls)
        /\ calls = <<"Get", "Delete", "Create">>
        /\ created = target

\* C2 amended: when the current type differs from the desired one and
\* updateService is entered with a live context, it returns an error without
\* submitting an Update, and reconcileService issues the Delete and, unless
\* createService finds the context done, the Create of the desired object; a
\* nil result of such a call means the platform holds the desired type.
C2_TypeChangeRecreates ==
    (Returned /\ TypeDiffers /\ skipped # "update") =>
        /\ updRet = "typechange"
        /\ submitted = NoService
        /\ "Update" \notin Range(calls)
        /\ IF skipped = "create"
           THEN calls = <<"Get", "Delete">>
           ELSE /\ calls = <<"Get", "Delete", "Create">>
                /\ created = target
                /\ result = "nil" => (svc # NoService /\ svc.Type = target.Type)

\* a NodePort object was replaced by a ClusterIP one
C2_Witness ==
    /\ Returned
    /\ TypeDiffers
    /\ curService.Type = "NodePort"
    /\ result = "nil"
    /\ skipped = "none"
    /\ svc # NoService
    /\ svc.Type = "ClusterIP"

\* C3: the object updateService submits carries the current object's ClusterIP
\* and resourceVersion, whatever ClusterIP the desired object has; it is
\* submitted only for an unchanged type.
C3_UpdateKeepsAddress ==
    submitted # NoService =>
        /\ curService.Type = target.Type
        /\ submitted.ClusterIP = curService.ClusterIP
        /\ submitted.ResourceVersion = curService.ResourceVersion

\* current address 10.0.0.5, desired object built with an empty address
C3_Witness ==
    /\ submitted # NoService
    /\ curService.ClusterIP = "10.0.0.5"
    /\ target.ClusterIP = ""
    /\ submitted.ClusterIP = "10.0.0.5"

\* the second of two calls for the same desired object, both with a context
\* that stayed live and without any platform failure, has returned
SecondRunClean ==
    /\ pc = "return"
    /\ prevRun # NoRun
    /\ prevRun.target = target
    /\ ~prevRun.failed /\ ~failed
    /\ ~prevRun.ctxDone /\ ~ctxDone

\* C4 as stated: the second run issues no Create, Update or Delete.
C4_AsStated ==
    SecondRunClean => Range(calls) \cap {"Create", "Update", "Delete"} = {}

\* C4 amended: the second of two reconcileService calls for the same desired
\* object, with no platform failure and a context that stays live, issues no
\* Create and no Delete; it looks the object up and submits exactly one Update.
C4_SecondRunOnlyUpdates ==
    SecondRunClean => calls = <<"Get", "Update">>

\* the first run created the object, the second one updated it
C4_Witness ==
    /\ SecondRunClean
    /\ prevRun.calls = <<"Get", "Delete", "Create">>
    /\ calls = <<"Get", "Update">>

(***************************************************************************)
(* Claims about the generator options (specification SpecOptions)          *)
(***************************************************************************)
\* C5: for every host h and every options value o, nil included,
\* o.Include(h) is the negation of o.Exclude(h).
C5_AsStated ==
    qHost # NoHost => (qInclude = ~qExclude)

(***************************************************************************)
(* Claims about Service generation (specification SpecService)             *)
(***************************************************************************)
\* some port the template declares is outside 1..65535
SomePortOutside(template) ==
    \E i \in 1..Len(template.Spec.Ports) :
        template.Spec.Ports[i].Port \notin 1..65535

\* C6: a template is rejected exactly when some declared port is outside
\* 1..65535; on rejection no object is returned and the caller of the
\* generator receives an error.
C6_AsStated ==
    (genScope # "none" /\ genTemplate # NoTemplate) =>
        /\ (genService = NoService) <=> SomePortOutside(genTemplate)
        /\ SomePortOutside(genTemplate) => genErr # "nil"

(***************************************************************************)
(* Claims about the StatefulSet assembly (specification SpecStatefulSet)   *)
(***************************************************************************)
\* the last operation applied to sts, and sts as it was before it
LastOp == stsOps[Len(stsOps)]
stsPrev == stsHist[Len(stsHist)]

PortsNamed(ports, name) == {j \in 1..Len(ports) : ports[j].Name = name}
MountsNamed(container, name) ==
    {j \in 1..Len(container.VolumeMounts) : container.VolumeMounts[j].Name = name}
MountsAt(container, mountPath) ==
    {j \in 1..Len(container.VolumeMounts) : container.VolumeMounts[j].MountPath = mountPath}
ClaimsNamed(s, name) ==
    {j \in 1..Len(s.VolumeClaimTemplates) : s.VolumeClaimTemplates[j] = name}

\* the last two operations are the same call of operation `name`
CalledTwice(name) ==
    /\ Len(stsOps) >= 2
    /\ LastOp.op = name
    /\ stsOps[Len(stsOps) - 1].op = name
    /\ stsOps[Len(stsOps) - 1].args = LastOp.args

\* C7: ensurePortByName overwrites the number of the first port with the name
\* in place, leaving the number of ports with that name as it was, or else
\* appends exactly one port with that name and number; it touches nothing
\* else; a second ensureNamedPortsSpecified changes nothing.
C7_EnsurePortUpsert ==
    /\ (sts # NoStatefulSet /\ LastOp.op = "ensurePortByName") =>
          LET i == LastOp.args[1]
              name == LastOp.args[2]
              port == LastOp.args[3]
              before == stsPrev.Containers[i].Ports
              after == sts.Containers[i].Ports
              had == PortsNamed(before, name)
          IN  /\ had # {} =>
                    /\ Len(after) = Len(before)
                    /\ PortsNamed(after, name) = had
                    /\ \A j \in 1..Len(before) :
                          IF j = FirstIndex(had)
                          THEN after[j].Name = name /\ after[j].ContainerPort = port
                          ELSE after[j] = before[j]
              /\ had = {} =>
                    /\ Len(after) = Len(before) + 1
                    /\ SubSeq(after, 1, Len(before)) = before
                    /\ after[Len(after)].Name = name
                    /\ after[Len(after)].ContainerPort = port
              /\ [sts EXCEPT !.Containers[i].Ports = before] = stsPrev
    /\ CalledTwice("ensureNamedPortsSpecified") => sts = stsPrev

\* a container with port tcp at 9000, a host with tcp = 9001: after two
\* ensureNamedPortsSpecified there is exactly one tcp port, at 9001
C7_Witness ==
    /\ CalledTwice("ensureNamedPortsSpecified")
    /\ Len(stsOps) = 3
    /\ stsHost.TcpPort = 9001
    /\ stsHist[2].Containers[1].Ports = << ContainerPort("tcp", 9000, 9000) >>
    /\ Cardinality(PortsNamed(sts.Containers[1].Ports, "tcp")) = 1
    /\ \E j \in 1..Len(sts.Containers[1].Ports) :
          sts.Containers[1].Ports[j] = ContainerPort("tcp", 9001, 0)

\* CreateStatefulSet has returned sts
Created == sts # NoStatefulSet /\ stsOps = << Op("CreateStatefulSet", <<>>) >>

HasPort(container, name, port) ==
    \E j \in 1..Len(container.Ports) :
        container.Ports[j].Name = name /\ container.Ports[j].ContainerPort = port

\* C8: every container of the StatefulSet CreateStatefulSet returns, the log
\* container included, exposes http, tcp and interserver-http with the host's
\* port numbers.
C8_AsStated ==
    Created =>
        \A i \in 1..Len(sts.Containers) :
            /\ HasPort(sts.Containers[i], chDefaultHttpPortName, stsHost.HttpPort)
            /\ HasPort(sts.Containers[i], chDefaultTcpPortName, stsHost.TcpPort)
            /\ HasPort(sts.Containers[i], chDefaultInterserverHttpPortName,
                       stsHost.InterserverHttpPort)

HasMount(container, name, mountPath) ==
    \E j \in 1..Len(container.VolumeMounts) :
        container.VolumeMounts[j] = [Name |-> name, MountPath |-> mountPath]

\* C9: every container of the StatefulSet CreateStatefulSet returns, the log
\* container included, has the common, common-users and per-host ConfigMap
\* volumes mounted at the config.d, users.d and conf.d paths.
C9_AsStated ==
    Created =>
        \A i \in 1..Len(sts.Containers) :
            /\ HasMount(sts.Containers[i], configMapCommonName, dirPathConfigd)
            /\ HasMount(sts.Containers[i], configMapCommonUsersName, dirPathUsersd)
            /\ HasMount(sts.Containers[i], CreateConfigMapPodName(stsHost), dirPathConfd)

\* setupStatefulSetApplyVolumeClaimTemplate was called twice in a row with the
\* same existing container, the same known template and the same mount path
AppliedTwice ==
    /\ sts # NoStatefulSet
    /\ CalledTwice("setupStatefulSetApplyVolumeClaimTemplate")
    /\ LastOp.args[2] \in VolumeClaimTemplateNames
    /\ LastOp.args[3] # ""
    /\ \E i \in 1..Len(sts.Containers) : sts.Containers[i].Name = LastOp.args[1]

\* the container the two calls name, in StatefulSet s
Named(s) ==
    s.Containers[CHOOSE i \in 1..Len(s.Containers) :
                    /\ s.Containers[i].Name = LastOp.args[1]
                    /\ \A k \in 1..(i - 1) : s.Containers[k].Name # LastOp.args[1]]

\* C10 as stated: after the two calls the container has exactly one volume
\* mount for the template, the StatefulSet exactly one claim-template entry
\* with that name, and the second call changed nothing.
C10_AsStated ==
    AppliedTwice =>
        /\ Cardinality(MountsNamed(Named(sts), LastOp.args[2])) = 1
        /\ Cardinality(ClaimsNamed(sts, LastOp.args[2])) = 1
        /\ sts = stsPrev

\* C10 amended: the second of the two calls changes nothing; and when the
\* container had, before the first call, neither a volume mount named after
\* the template nor one at the mount path, the container then has exactly
\* one volume mount for the template, at the mount path, and the StatefulSet
\* exactly one claim-template entry with that name.
C10_ApplyTwice ==
    AppliedTwice =>
        LET first == stsHist[Len(stsHist) - 1]
        IN  /\ sts = stsPrev
            /\ ( /\ MountsNamed(Named(first), LastOp.args[2]) = {}
                 /\ MountsAt(Named(first), LastOp.args[3]) = {} )
               => /\ Cardinality(MountsNamed(Named(sts), LastOp.args[2])) = 1
                  /\ HasMount(Named(sts), LastOp.args[2], LastOp.args[3])
                  /\ Cardinality(ClaimsNamed(sts, LastOp.args[2])) = 1

\* the first call mounted the template, the second one found it mounted
C10_Witness ==
    /\ AppliedTwice
    /\ MountsNamed(Named(stsHist[Len(stsHist) - 1]), LastOp.args[2]) = {}
    /\ ClaimsNamed(stsHist[Len(stsHist) - 1], LastOp.args[2]) = {}
    /\ Cardinality(MountsNamed(Named(sts), LastOp.args[2])) = 1
    /\ Cardinality(ClaimsNamed(sts, LastOp.args[2])) = 1
    /\ sts = stsPrev

\* C11: whatever sequence of setupStatefulSetApplyVolumeMounts,
\* setupStatefulSetApplyVolumeClaimTemplate(s) and
\* statefulSetAppendVolumeClaimTemplate calls has worked on a StatefulSet whose
\* claim list started empty, the names in its VolumeClaimTemplates are
\* pairwise distinct.
C11_ClaimNamesDistinct ==
    sts # NoStatefulSet =>
        \A i, j \in 1..Len(sts.VolumeClaimTemplates) :
            i # j => sts.VolumeClaimTemplates[i] # sts.VolumeClaimTemplates[j]

\* a template already in the claim list was appended again, with another
\* template in the list as well
C11_Witness ==
    /\ sts # NoStatefulSet
    /\ LastOp.op = "statefulSetAppendVolumeClaimTemplate"
    /\ ClaimsNamed(stsPrev, LastOp.args[1]) # {}
    /\ Cardinality(ClaimsNamed(sts, LastOp.args[1])) = 1
    /\ Len(sts.VolumeClaimTemplates) = 2

(***************************************************************************)
(* More claims about the Service reconcile worker (specification Spec)     *)
(***************************************************************************)
\* how many platform calls of a kind the current call has issued
CountCalls(kind) == Cardinality({i \in 1..Len(calls) : calls[i] = kind})

\* C12: one reconcileService call issues at most one lookup, one Update, one
\* Delete and one Create; a failed Create is the last platform call of the
\* call and its error is what reconcileService returns.
C12_AtMostOnce ==
    /\ \A kind \in {"Get", "Update", "Delete", "Create"} : CountCalls(kind) <= 1
    /\ \A i \in 1..Len(calls) : calls[i] = "Create" => i = Len(calls)
    /\ (pc = "return" /\ CountCalls("Create") = 1 /\ err # "nil") => result = err

\* all four calls were issued and the Create failed
C12_Witness ==
    /\ pc = "return"
    /\ calls = << "Get", "Update", "Delete", "Create" >>
    /\ err = "other"
    /\ result = "other"

\* the current call emitted an event with this reason
Emitted(reason) == \E i \in 1..Len(events) : events[i] = reason

\* the events and the error mark a finished call owes to its result
Reported ==
    /\ (result = "nil" /\ created = NoService) => Emitted("UpdateCompleted")
    /\ (result = "nil" /\ created # NoService) => Emitted("CreateCompleted")
    /\ result # "nil" =>
          (Emitted("CreateFailed") \/ Emitted("ReconcileFailed")) /\ statusError

\* C13 as stated: every call entered with a live context that ends in
\* success has emitted the completion event of the path that succeeded, and
\* every call that ends in failure has emitted a failure event and marked the
\* status as errored.
C13_AsStated ==
    (pc = "return" /\ skipped # "reconcile") => Reported

\* C13 amended: the same for every call in which no step found the context
\* done.
C13_OutcomeReported ==
    (pc = "return" /\ skipped = "none") => Reported

\* the Update failed, the object was deleted and created again: the call
\* succeeded and emitted create-completed
C13_Witness ==
    /\ pc = "return"
    /\ skipped = "none"
    /\ calls = << "Get", "Update", "Delete", "Create" >>
    /\ result = "nil"
    /\ Emitted("CreateCompleted")

\* C14: a call marks the status as errored only if it ends in failure; a call
\* that ends in success, the one whose Update failed and whose delete and
\* create then succeeded included, leaves no error mark.
C14_AsStated ==
    (pc = "return" /\ statusError) => result # "nil"

\* C15: the delete-then-create path is entered only when the lookup was
\* classified not-found or the Update of the found object failed, never
\* because the lookup failed with another error.
C15_AsStated ==
    pc \in {"delete", "create"} =>
        \/ updRet = "none" /\ err = "notfound"
        \/ updRet \notin {"none", "nil"}

\* C16: reconcileService, updateService and createService entered with a
\* context that is already done issue no platform call, emit no event and
\* return nil.
C16_DoneContextSkips ==
    [][ /\ (pc \in {"idle", "return"} /\ run' # run /\ ctxDone') =>
              /\ pc' = "return" /\ result' = "nil"
              /\ calls' = <<>> /\ events' = <<>> /\ svc' = svc
        /\ (pc = "update" /\ ctxDone) =>
              /\ updRet' = "nil" /\ submitted' = NoService
              /\ calls' = calls /\ events' = events /\ svc' = svc
        /\ (pc = "create" /\ ctxDone) =>
              /\ pc' = "return" /\ result' = "nil" /\ created' = NoService
              /\ calls' = calls /\ events' = events /\ svc' = svc
      ]_vars

\* createService found the context done after the Delete: the call returned
\* nil without a Create and without an event for it
C16_Witness ==
    /\ pc = "return"
    /\ ctxDone
    /\ skipped = "create"
    /\ calls = << "Get", "Delete" >>
    /\ events = <<>>
    /\ result = "nil"

(***************************************************************************)
(* Claims about the kube managers (specification SpecKube)                 *)
(***************************************************************************)
\* C17: every client call the STS and PDB managers issue is bound to the
\* context their caller passed in; none is bound to a context of its own.
C17_AsStated ==
    kubeCall # NoCall => kubeCall.ctx = CallerContext

(***************************************************************************)
(* More claims about the Service generation (specification SpecService)    *)
(***************************************************************************)
\* a Create* method built its Service from a template
BuiltFromTemplate == genTemplate # NoTemplate /\ genService # NoService

\* merged holds every key of supplied, with the template's value on the keys
\* the template has as well
TemplateWins(merged, ofTemplate, supplied) ==
    \A k \in DOMAIN supplied :
        /\ k \in DOMAIN merged
        /\ k \in DOMAIN ofTemplate => merged[k] = ofTemplate[k]

C19_NameOverwrittenTemplateKept ==
    BuiltFromTemplate =>
        /\ genService.Name = ServiceName(genScope)
        /\ genService.Namespace = ScopeNamespace
        /\ genTemplateAfter = genTemplate

\* the template carries a name and a namespace of its own
C19_Witness ==
    /\ BuiltFromTemplate
    /\ genTemplate.ObjectMeta.Name = "custom"
    /\ genTemplate.ObjectMeta.Namespace = "other"
    /\ genService.Name = ServiceName(genScope)
    /\ genService.Namespace = ScopeNamespace
    /\ genService.Labels # genTemplate.ObjectMeta.Labels
    /\ genTemplateAfter = genTemplate

\* the Service has a port with this name and protocol TCP
HasServicePort(service, name) ==
    \E i \in 1..Len(service.Spec.Ports) :
        service.Spec.Ports[i].Name = name /\ service.Spec.Ports[i].Protocol = "TCP"

\* the Service has a port with this name, protocol TCP and this number
HasServicePortAt(service, name, port) ==
    \E i \in 1..Len(service.Spec.Ports) :
        /\ service.Spec.Ports[i].Name = name
        /\ service.Spec.Ports[i].Protocol = "TCP"
        /\ service.Spec.Ports[i].Port = port

\* C20: without a template, CreateServiceChi and CreateServiceHost return a
\* default Service with the ports http, tcp and interserver-http, all three,
\* each with protocol TCP; the one of a host has the host's port numbers and
\* type ClusterIP.
C20_AsStated ==
    (genScope \in {"chi", "host"} /\ genTemplate = NoTemplate) =>
        /\ genService # NoService
        /\ HasServicePort(genService, chDefaultHttpPortName)
        /\ HasServicePort(genService, chDefaultTcpPortName)
        /\ HasServicePort(genService, chDefaultInterserverHttpPortName)
        /\ genScope = "host" =>
              LET host == CHOOSE h \in GenHosts : h.Name = genHost
              IN  /\ HasServicePortAt(genService, chDefaultHttpPortName, host.HttpPort)
                  /\ HasServicePortAt(genService, chDefaultTcpPortName, host.TcpPort)
                  /\ HasServicePortAt(genService, chDefaultInterserverHttpPortName,
                                      host.InterserverHttpPort)
                  /\ genService.Spec.Type = "ClusterIP"

(***************************************************************************)
(* Claims about ChkCluster (specification SpecCluster)                     *)
(***************************************************************************)
WalkOps == {"WalkShards", "WalkReplicas", "WalkHosts", "WalkHostsByShards",
            "WalkHostsByReplicas"}

\* the last call was one of the walks
WalkReturned == clusterCall # NoClusterCall /\ clusterCall.op \in WalkOps

\* the elements a walk is over, in index order
WalkElements(op) ==
    CASE op = "WalkShards" -> ShardArgs(layout)
      [] op = "WalkReplicas" -> ReplicaArgs(layout)
      [] op = "WalkHosts" -> HostArgs(layout)
      [] op = "WalkHostsByShards" -> HostByShardArgs(layout)
      [] op = "WalkHostsByReplicas" -> HostByReplicaArgs(layout)

\* hosts listed by the shards (by the replicas) of the layout
ShardHostCount ==
    Cardinality({x \in (1..Len(layout.Shards)) \X (1..MaxShardHosts) :
                   x[2] <= Len(layout.Shards[x[1]].hosts)})

\* C21: every walk calls the callback once per element, in index order, and
\* returns one entry per element: the error of the callback on that element,
\* nil when it succeeded. An error on an element does not stop the walk.
C21_WalkVisitsAll ==
    WalkReturned =>
        LET elems == WalkElements(clusterCall.op)
        IN /\ clusterCall.calls = elems
           /\ Len(clusterCall.res) = Len(elems)
           /\ \A i \in 1..Len(elems) :
                  clusterCall.res[i] = IF elems[i] \in clusterCall.bad THEN "error" ELSE Nil
           /\ clusterCall.op = "WalkShards" =>
                  /\ Len(clusterCall.calls) = Len(layout.Shards)
                  /\ \A i \in 1..Len(clusterCall.calls) :
                         /\ clusterCall.calls[i].index = i - 1
                         /\ clusterCall.calls[i].shard = layout.Shards[i]
           /\ clusterCall.op = "WalkReplicas" =>
                  /\ Len(clusterCall.calls) = Len(layout.Replicas)
                  /\ \A i \in 1..Len(clusterCall.calls) :
                         /\ clusterCall.calls[i].index = i - 1
                         /\ clusterCall.calls[i].replica = layout.Replicas[i]
           /\ clusterCall.op \in {"WalkHosts", "WalkHostsByShards"} =>
                  /\ Len(clusterCall.calls) = ShardHostCount
                  /\ \A i, j \in 1..Len(clusterCall.calls) :
                         i < j =>
                             \/ clusterCall.calls[i].host.shard < clusterCall.calls[j].host.shard
                             \/ /\ clusterCall.calls[i].host.shard = clusterCall.calls[j].host.shard
                                /\ clusterCall.calls[i].host.replica < clusterCall.calls[j].host.replica
           /\ clusterCall.op = "WalkHostsByReplicas" =>
                  \A i, j \in 1..Len(clusterCall.calls) :
                      i < j =>
                          \/ clusterCall.calls[i].replica < clusterCall.calls[j].replica
                          \/ /\ clusterCall.calls[i].replica = clusterCall.calls[j].replica
                             /\ clusterCall.calls[i].shard < clusterCall.calls[j].shard

\* a walk over hosts whose callback failed on the first host and ran on the second
C21_Witness ==
    /\ WalkReturned
    /\ clusterCall.op = "WalkHostsByReplicas"
    /\ Len(clusterCall.res) >= 2
    /\ clusterCall.res[1] = "error"
    /\ clusterCall.res[2] = Nil

\* the indexes (1-based) of the shards a needle matches
Matches(needle) ==
    {i \in 1..Len(layout.Shards) :
        IF needle.type = "string" THEN layout.Shards[i].name = needle.v
        ELSE i - 1 = needle.v}

Lowest(S) == CHOOSE i \in S : \A j \in S : i <= j

\* C22: FindShard by name returns the first shard of that name (the lowest
\* index when several share it), FindShard by index the shard at that index,
\* FirstHost the first host in shard-then-replica order; each returns nil when
\* nothing matches.
C22_AsStated ==
    /\ (clusterCall # NoClusterCall /\ clusterCall.op = "FindShard") =>
           LET m == Matches(clusterCall.needle)
           IN IF m = {} THEN clusterCall.found = NoShard
              ELSE /\ clusterCall.found # NoShard
                   /\ clusterCall.found.index = Lowest(m) - 1
                   /\ clusterCall.found.shard = layout.Shards[Lowest(m)]
    /\ (clusterCall # NoClusterCall /\ clusterCall.op = "FirstHost") =>
           LET withHosts == {i \in 1..Len(layout.Shards) : Len(layout.Shards[i].hosts) > 0}
           IN IF withHosts = {} THEN clusterCall.found = NoClusterHost
              ELSE clusterCall.found = layout.Shards[Lowest(withHosts)].hosts[1]

\* the layout lists shards (replicas) explicitly
ShardsListed == Len(layout.Shards) > 0

ReplicasListed == Len(layout.Replicas) > 0

\* C23: after FillShardReplicaSpecified exactly one of IsShardSpecified() and
\* isReplicaSpecified() is true: the replica-based layout governs exactly when
\* replicas are listed and shards are not, the shard-based one in every other
\* case, also when neither is listed.
C23_ExactlyOneLayout ==
    filled =>
        /\ IsShardSpecified(layout) # isReplicaSpecified(layout)
        /\ isReplicaSpecified(layout) <=> (ReplicasListed /\ ~ShardsListed)
        /\ IsShardSpecified(layout) <=> ~(ReplicasListed /\ ~ShardsListed)

\* FillShardReplicaSpecified has run on a layout that lists neither shards nor
\* replicas, and the shard-based layout governs
C23_Witness ==
    /\ filled
    /\ ~ShardsListed
    /\ ~ReplicasListed
    /\ IsShardSpecified(layout)
    /\ ~isReplicaSpecified(layout)

(***************************************************************************)
(* Claims about clickhouse.Connection (specification SpecConn)             *)
(***************************************************************************)
\* C24: the connection is lazy and cached. NewConnection opens nothing; a call
\* with empty SQL returns nil without connecting; a call with SQL on an unset
\* connection attempts open and ping; after a successful ping every later call
\* reuses that connection and does not connect; a failed open or ping leaves
\* the connection unset and fails that call only: the next call with SQL
\* connects again.
C24_LazyCached ==
    /\ connLog = <<>> => conn = NoConn
    /\ \A i \in 1..Len(connLog) :
           LET e == connLog[i]
           IN /\ e.before = IF i = 1 THEN NoConn ELSE connLog[i - 1].after
              /\ e.sql = "" =>
                     e.attempt = "none" /\ e.run = "none" /\ e.err = Nil /\ e.after = e.before
              /\ (e.sql # "" /\ e.before = NoConn) => e.attempt \in ConnectOutcomes
              /\ (e.sql # "" /\ e.before # NoConn) =>
                     e.attempt = "none" /\ e.used = e.before /\ e.after = e.before
              /\ e.attempt \in {"open failed", "ping failed"} =>
                     e.after = NoConn /\ e.run = "none" /\ e.err # Nil
              /\ e.attempt = "ok" => e.after # NoConn /\ e.used = e.after
              /\ e.err = Nil <=> (e.sql = "" \/ e.run = "ok")
    /\ \A i, j \in 1..Len(connLog) :
           (i < j /\ connLog[i].attempt = "ok") =>
               /\ connLog[j].attempt = "none"
               /\ connLog[j].after = connLog[i].after
               /\ connLog[j].sql # "" => connLog[j].used = connLog[i].after
    /\ conn = IF connLog = <<>> THEN NoConn ELSE connLog[Len(connLog)].after

\* a ping failed, the next call connected, and the call after it reused that
\* connection
C24_Witness ==
    /\ Len(connLog) = 3
    /\ connLog[1].attempt = "ping failed"
    /\ connLog[1].err # Nil
    /\ connLog[2].attempt = "ok"
    /\ connLog[2].err = Nil
    /\ connLog[3].sql # ""
    /\ connLog[3].attempt = "none"
    /\ connLog[3].used = connLog[2].after

(***************************************************************************)
(* Claims about the object updateService submits (specification Spec)      *)
(***************************************************************************)
\* the exposure type is NodePort on both objects or LoadBalancer on both
SameExposedType ==
    \/ curService.Type = "NodePort" /\ target.Type = "NodePort"
    \/ curService.Type = "LoadBalancer" /\ target.Type = "LoadBalancer"

\* the indexes of the current ports with the number of desired port i
SameNumber(i) ==
    {j \in 1..Len(curService.Ports) : curService.Ports[j].Port = target.Ports[i].Port}

\* C25: the submitted object carries current port entries only when the type
\* is NodePort on both objects or LoadBalancer on both: a desired port whose
\* number a current port has is replaced by that current port entry, any other
\* desired port is submitted as desired; for every other type all submitted
\* ports are the desired ones.
C25_PortCarryOver ==
    submitted # NoService =>
        /\ Len(submitted.Ports) = Len(target.Ports)
        /\ \A i \in 1..Len(target.Ports) :
               IF SameExposedType /\ SameNumber(i) # {}
               THEN submitted.Ports[i] = curService.Ports[Lowest(SameNumber(i))]
               ELSE submitted.Ports[i] = target.Ports[i]

\* an update of a NodePort object: one desired port took the current entry
\* with its node port, another had no current port of its number
C25_Witness ==
    /\ submitted # NoService
    /\ SameExposedType
    /\ \E i \in 1..Len(target.Ports) :
           /\ SameNumber(i) # {}
           /\ submitted.Ports[i] # target.Ports[i]
           /\ submitted.Ports[i].NodePort # 0
    /\ \E i \in 1..Len(target.Ports) :
           /\ SameNumber(i) = {}
           /\ submitted.Ports[i] = target.Ports[i]

\* C26: the submitted labels and annotations are the desired ones plus every
\* key only the current object has (on a key of both the desired value is
\* kept); the submitted finalizers are the union of the desired and the
\* current ones. Nothing present on the current object is lost.
C26_MetadataMerged ==
    submitted # NoService =>
        /\ DOMAIN submitted.Labels = DOMAIN target.Labels \cup DOMAIN curService.Labels
        /\ \A k \in DOMAIN submitted.Labels :
               submitted.Labels[k] =
                   IF k \in DOMAIN target.Labels THEN target.Labels[k] ELSE curService.Labels[k]
        /\ DOMAIN submitted.Annotations =
               DOMAIN target.Annotations \cup DOMAIN curService.Annotations
        /\ \A k \in DOMAIN submitted.Annotations :
               submitted.Annotations[k] =
                   IF k \in DOMAIN target.Annotations THEN target.Annotations[k]
                   ELSE curService.Annotations[k]
        /\ Range(submitted.Finalizers) =
               Range(target.Finalizers) \cup Range(curService.Finalizers)

\* an update where the current object has a label the desired one lacks and a
\* label both have with different values
C26_Witness ==
    /\ submitted # NoService
    /\ \E k \in DOMAIN curService.Labels :
           k \notin DOMAIN target.Labels /\ submitted.Labels[k] = curService.Labels[k]
    /\ \E k \in DOMAIN curService.Labels \cap DOMAIN target.Labels :
           /\ curService.Labels[k] # target.Labels[k]
           /\ submitted.Labels[k] = target.Labels[k]
    /\ curService.Finalizers # <<>>

(***************************************************************************)
(* Claims about the volume claim templates (specification SpecStatefulSet) *)
(***************************************************************************)
\* the last operation was a setupStatefulSetApplyVolumeClaimTemplate call
ClaimTemplateApplied ==
    /\ sts # NoStatefulSet
    /\ stsOps # <<>>
    /\ LastOp.op = "setupStatefulSetApplyVolumeClaimTemplate"

\* the StatefulSet had, before that call, a container of the name the call gives
ContainerKnown == \E i \in 1..Len(stsPrev.Containers) : stsPrev.Containers[i].Name = LastOp.args[1]

\* that container already had a mount named after the template
MountedByName == ContainerKnown /\ MountsNamed(Named(stsPrev), LastOp.args[2]) # {}

\* that container already had a mount at the mount path
PathOccupied == ContainerKnown /\ MountsAt(Named(stsPrev), LastOp.args[3]) # {}

\* C27: setupStatefulSetApplyVolumeClaimTemplate is first-writer-wins. When
\* the container already has a volume mount named after the template or one
\* at the mount path, when the template name or the mount path is empty, and
\* when the template or the container is unknown, the call leaves the volume
\* mounts of the containers and the claim-template list as they were.
C27_FirstWriterWins ==
    ( /\ ClaimTemplateApplied
      /\ \/ LastOp.args[2] = ""
         \/ LastOp.args[3] = ""
         \/ ~GetVolumeClaimTemplate(LastOp.args[2])
         \/ ~ContainerKnown
         \/ MountedByName
         \/ PathOccupied )
    => /\ sts.VolumeClaimTemplates = stsPrev.VolumeClaimTemplates
       /\ Len(sts.Containers) = Len(stsPrev.Containers)
       /\ \A i \in 1..Len(sts.Containers) :
              sts.Containers[i].VolumeMounts = stsPrev.Containers[i].VolumeMounts

\* a known template was applied at a path where the container has a mount of
\* another name, and nothing was added
C27_Witness ==
    /\ ClaimTemplateApplied
    /\ LastOp.args[2] # ""
    /\ GetVolumeClaimTemplate(LastOp.args[2])
    /\ PathOccupied
    /\ ~MountedByName
    /\ ClaimsNamed(stsPrev, LastOp.args[2]) = {}
    /\ sts = stsPrev

(***************************************************************************)
(* Claims about cancellation and aliasing in the worker (specification     *)
(* Spec)                                                                   *)
(***************************************************************************)
\* C28: a reconcileService call entered with a live context, whenever the
\* context is cancelled during the call, returns nil only if the Service
\* exists on the platform when it returns.
C28_AsStated == (Returned /\ result = "nil") => svc # NoService

\* C29: updateService leaves both of its inputs as they were - the migrated
\* fields are written to a copy of the desired object - so the object the
\* fallback Create submits after a failed update is the desired object as it
\* was generated.
C29_InputsUnchanged ==
    /\ updRet # "none" =>
           /\ target = desired
           /\ curService = current
    /\ (updRet # "none" /\ created # NoService) => created = desired

\* an update that migrated fields of the current object failed, and the Create
\* that followed submitted the desired object without them
C29_Witness ==
    /\ updRet \in {"notfound", "other"}
    /\ submitted # NoService
    /\ submitted.ClusterIP # desired.ClusterIP
    /\ submitted.Labels # desired.Labels
    /\ created = desired
    /\ target = desired
    /\ curService = current

(***************************************************************************)
(* Claims about shared pod templates (specification SpecTemplates)         *)
(***************************************************************************)
\* the containers of StatefulSet s that come from the pod template of host h
\* (the log container the creator adds itself is not one of them)
FromPodTemplate(s, h) == 1..Len(getPodTemplate(h).Containers)

\* the containers of StatefulSet s that come from the pod template have the
\* three named ports at the numbers of host h, and no container of s has one
\* of them at another number
CarriesPortsOf(s, h) ==
    \A i \in 1..Len(s.Containers) :
        \A p \in { <<chDefaultTcpPortName, h.TcpPort>>,
                   <<chDefaultHttpPortName, h.HttpPort>>,
                   <<chDefaultInterserverHttpPortName, h.InterserverHttpPort>> } :
            /\ i \in FromPodTemplate(s, h) => PortsNamed(s.Containers[i].Ports, p[1]) # {}
            /\ PortsNamed(s.Containers[i].Ports, p[1]) # {} =>
                   LET first == FirstIndex(PortsNamed(s.Containers[i].Ports, p[1]))
                   IN  s.Containers[i].Ports[first].ContainerPort = p[2]

\* StatefulSet s has the config volume of host h, mounted once in every
\* container that comes from the pod template, and neither the config volume
\* of a host of another name nor a mount of it
CarriesConfigOf(s, h) ==
    /\ Cardinality({j \in 1..Len(s.Volumes) : s.Volumes[j] = CreateConfigMapPodName(h)}) = 1
    /\ \A i \in FromPodTemplate(s, h) :
           Cardinality(MountsNamed(s.Containers[i], CreateConfigMapPodName(h))) = 1
    /\ \A other \in SharedHosts :
           other.Name # h.Name =>
               /\ CreateConfigMapPodName(other) \notin Range(s.Volumes)
               /\ \A i \in 1..Len(s.Containers) :
                      MountsNamed(s.Containers[i], CreateConfigMapPodName(other)) = {}

\* C30: CreateStatefulSet never modifies a named pod template: after any
\* sequence of calls for hosts that reference the same template, the template
\* is what it was at first, and every StatefulSet returned has the port
\* numbers and the config volume of its own host, not those of a host
\* processed before it.
C30_TemplateNotModified ==
    /\ podTemplates = PodTemplates
    /\ \A k \in 1..Len(workloads) :
           /\ CarriesPortsOf(workloads[k].statefulSet, workloads[k].host)
           /\ CarriesConfigOf(workloads[k].statefulSet, workloads[k].host)
           /\ workloads[k].statefulSet = NewStatefulSet(workloads[k].host)

\* two hosts of different names and ports that reference the same template
\* got their StatefulSets one after the other
C30_Witness ==
    /\ Len(workloads) = 2
    /\ workloads[1].host.Templates.PodTemplate = "pt2"
    /\ workloads[2].host.Templates.PodTemplate = "pt2"
    /\ workloads[1].host.Name # workloads[2].host.Name
    /\ workloads[1].host.TcpPort # workloads[2].host.TcpPort
    /\ workloads[1].statefulSet.Containers # PodTemplates["pt2"].Containers
    /\ podTemplates["pt2"] = PodTemplates["pt2"]

=============================================================================
